---- MODULE Spec2Model ----
(***************************************************************************)
(* Model of klauern/bump: semantic-version tag parsing, ordering and       *)
(* selection, the computation of the next tag and the push preference      *)
(* (src/bump.go), and the bump workflow (src/cmd/bump).                    *)
(*                                                                         *)
(* Go strings are modelled as TLA+ strings; Chars(s) gives the sequence of *)
(* one-character strings so that the byte-wise algorithms of the source    *)
(* (regular-expression match, strings.Split, strconv.Atoi, string          *)
(* comparison) are computed the way the code computes them.                *)
(***************************************************************************)
EXTENDS Integers, Sequences, FiniteSets, TLC

VARIABLES
    pc,        \* position of the caller: which operation runs next / has run
    tag,       \* the tag string handed to ParseTagVersion
    parsed,    \* the (*tagVersion, bool) pair ParseTagVersion returned
    versions,  \* a []*tagVersion slice: operands of compareVersions / sortVersions
    greater,   \* greater[i][j] = compareVersions(versions[i], versions[j])
    tagRefs,   \* the tag names of the repository, in the order its iterator yields them
    latest,    \* the (string, error) pair GetLatestTag returned
    args,      \* the arguments of GetNextTag / calculateNextVersion
    next,      \* the (string, error) pair GetNextTag / calculateNextVersion returned
    config,    \* the [bump] section of the repository's .git/config
    cli,       \* the flags of the command line of this run
    opts,      \* the options the bump workflow runs with
    result,    \* what the bump workflow returned
    calls,     \* the calls the workflow made on the repository, in order
    output,    \* the lines the workflow printed, in order
    pref,      \* the (bool, bool, error) triple GetDefaultPushPreference returned
    fault,     \* the operation on the repository or its files that fails in this run
    snapshot,  \* the tag names of the repository when this run started
    concurrent, \* the tags other processes created while this run was between
               \* its read of the tags and its CreateTag
    lockFile,  \* the file .git/bump.lock of the repository
    repoMutex, \* per process, the entry of gitLocks for the repository
    caller,    \* per caller of acquireGitLock, its position and what it holds
    invocation, \* per concurrent run of the bump command, its position and its tag
    info       \* the ([]string, error) pair NewGitInfo returned

coreVars == <<tag, parsed, versions, greater>>

tagVars == <<tagRefs, latest, args, next>>

runVars == <<config, cli, opts, result, calls, output, pref, fault, snapshot, concurrent>>

lockVars == <<lockFile, repoMutex, caller, invocation>>

vars == <<pc, tag, parsed, versions, greater, tagRefs, latest, args, next,
          config, cli, opts, result, calls, output, pref, fault, snapshot,
          concurrent, lockFile, repoMutex, caller, invocation, info>>

(***************************************************************************)
(* Bytes and strings                                                       *)
(***************************************************************************)

Chars(s) == [i \in 1..Len(s) |-> SubSeq(s, i, i)]

DigitChars == Chars("0123456789")
UpperChars == Chars("ABCDEFGHIJKLMNOPQRSTUVWXYZ")
LowerChars == Chars("abcdefghijklmnopqrstuvwxyz")

Range(f) == {f[i] : i \in DOMAIN f}

\* The byte values (ASCII codes) of the characters that occur in tags.
OrdTable ==
    [c \in Range(DigitChars) |-> 47 + CHOOSE i \in 1..10 : DigitChars[i] = c]
    @@ [c \in Range(UpperChars) |-> 64 + CHOOSE i \in 1..26 : UpperChars[i] = c]
    @@ [c \in Range(LowerChars) |-> 96 + CHOOSE i \in 1..26 : LowerChars[i] = c]
    @@ (" " :> 32) @@ ("+" :> 43) @@ ("-" :> 45) @@ ("." :> 46) @@ ("_" :> 95)

Ord(c) == OrdTable[c]

Digits == {"0", "1", "2", "3", "4", "5", "6", "7", "8", "9"}

DigitVal(c) == Ord(c) - Ord("0")

\* Go's built-in string comparison s > t: byte-wise lexicographic, decided
\* at the first index i where the two differ; a proper prefix is smaller.
RECURSIVE BytesGreaterFrom(_, _, _)
BytesGreaterFrom(cs, ct, i) ==
    IF i > Len(cs) THEN FALSE
    ELSE IF i > Len(ct) THEN TRUE
    ELSE IF cs[i] # ct[i] THEN Ord(cs[i]) > Ord(ct[i])
    ELSE BytesGreaterFrom(cs, ct, i + 1)

BytesGreater(cs, ct) == BytesGreaterFrom(cs, ct, 1)

StringGreater(s, t) == BytesGreater(Chars(s), Chars(t))

\* strings.TrimPrefix(s, prefix) for a one-byte prefix.
TrimPrefix(s, prefix) ==
    IF Len(s) >= 1 /\ SubSeq(s, 1, 1) = prefix THEN SubSeq(s, 2, Len(s)) ELSE s

\* strings.Split(s, sep) for a one-byte separator: the pieces between the
\* separators, empty pieces included; always at least one piece.
RECURSIVE SplitFrom(_, _, _, _)
SplitFrom(s, sep, start, i) ==
    IF i > Len(s) THEN <<SubSeq(s, start, Len(s))>>
    ELSE IF SubSeq(s, i, i) = sep
         THEN <<SubSeq(s, start, i - 1)>> \o SplitFrom(s, sep, i + 1, i + 1)
         ELSE SplitFrom(s, sep, start, i + 1)

Split(s, sep) == SplitFrom(s, sep, 1, 1)

(***************************************************************************)
(* strconv.Atoi on a 64-bit platform                                       *)
(***************************************************************************)

\* The decimal digits of the largest int (2^63 - 1) and of 2^63.
MaxIntDigits == "9223372036854775807"
MinIntMagnitudeDigits == "9223372036854775808"

\* Index of the first digit of cs that is not a leading zero (the last
\* index when cs is all zeros).
RECURSIVE FirstSignificant(_, _)
FirstSignificant(cs, i) ==
    IF i < Len(cs) /\ cs[i] = "0" THEN FirstSignificant(cs, i + 1) ELSE i

StripLeadingZeros(cs) == SubSeq(cs, FirstSignificant(cs, 1), Len(cs))

\* The value of the decimal digits cs[i..], accumulated left to right.
RECURSIVE DigitsValue(_, _, _)
DigitsValue(cs, i, acc) ==
    IF i > Len(cs) THEN acc ELSE DigitsValue(cs, i + 1, acc * 10 + DigitVal(cs[i]))

\* Go's int has 64 bits, an integer of the model checker 32.  An int is kept
\* as the integer at the same distance from the nearest end of the range:
\* MaxInt is 2^63 - 1 and MinInt is -2^63, an integer of magnitude
\* WindowFloor + t (0 <= t) is the int of magnitude 9223372036000000000 + t,
\* and an integer of magnitude below WindowFloor is itself.  Order, equality
\* and the wrap of ++ at MaxInt are those of int.  The ints of magnitude
\* between WindowFloor and 9223372036000000000 have no integer: NotInModel.
MaxInt == 2147483647

MinInt == (0 - MaxInt) - 1

WindowFloor == 1292707840

\* The first ten digits of the ints of the window.
WindowDigits == "9223372036"

NotInModel == CHOOSE n \in {} : TRUE

\* The int written by the digit sequence cs, of magnitude at most 2^63.
IntOfDigits(cs, neg) ==
    LET sig == StripLeadingZeros(cs)
    IN  IF Len(sig) <= 9 \/ (Len(sig) = 10 /\ ~BytesGreater(sig, Chars("1292707839")))
        THEN IF neg THEN 0 - DigitsValue(sig, 1, 0) ELSE DigitsValue(sig, 1, 0)
        ELSE IF Len(sig) = 19 /\ SubSeq(sig, 1, 10) = Chars(WindowDigits)
        THEN IF neg THEN (0 - WindowFloor) - DigitsValue(sig, 11, 0)
             ELSE WindowFloor + DigitsValue(sig, 11, 0)
        ELSE NotInModel

\* n++ on an int: the successor, MinInt after MaxInt.
Increment(n) ==
    IF n = MaxInt THEN MinInt
    ELSE IF n = WindowFloor - 1 \/ n = 0 - WindowFloor THEN NotInModel
    ELSE n + 1

\* TRUE iff the magnitude written by the digit sequence cs exceeds the one
\* written by limit (both without sign).
MagnitudeExceeds(cs, limit) ==
    LET significant == Len(cs) - FirstSignificant(cs, 1) + 1
    IN  \/ significant > Len(limit)
        \/ significant = Len(limit)
             /\ BytesGreater(StripLeadingZeros(cs), Chars(limit))

\* Atoi(s) = [err |-> BOOLEAN, val |-> Int]: an optional sign followed by
\* one or more decimal digits; a value outside the int range is an error.
Atoi(s) ==
    LET cs     == Chars(s)
        signed == Len(cs) >= 1 /\ Head(cs) \in {"+", "-"}
        neg    == Len(cs) >= 1 /\ Head(cs) = "-"
        ds     == IF signed THEN Tail(cs) ELSE cs
    IN  IF ds = <<>> \/ \E i \in 1..Len(ds) : ds[i] \notin Digits
        THEN [err |-> TRUE, val |-> 0]
        ELSE IF MagnitudeExceeds(ds, IF neg THEN MinIntMagnitudeDigits ELSE MaxIntDigits)
        THEN [err |-> TRUE, val |-> 0]
        ELSE [err |-> FALSE,
              val |-> IntOfDigits(ds, neg)]

\* parseInt converts a string to an integer, defaulting to 0 on error.
parseInt(s) ==
    LET r == Atoi(s) IN IF r.err THEN 0 ELSE r.val

(***************************************************************************)
(* ParseTagVersion                                                         *)
(***************************************************************************)

Letters == Range(UpperChars) \cup Range(LowerChars)

\* The character class [0-9A-Za-z-.] of the pre-release group.
SuffixClass == Digits \cup Letters \cup {"-", "."}

\* First index at or after i whose character is outside class (Len+1 if none):
\* the end of the greedy run matched by class+ starting at i.
RECURSIVE RunEnd(_, _, _)
RunEnd(cs, i, class) ==
    IF i <= Len(cs) /\ cs[i] \in class THEN RunEnd(cs, i + 1, class) ELSE i

NoMatch == <<>>

\* Variant of semanticVersionRegex without the closing anchor $: text may
\* follow the match.
semanticVersionRegexUnanchored(t) ==
    LET cs == Chars(t)
        n  == Len(cs)
        e1 == RunEnd(cs, 2, Digits)
        e2 == RunEnd(cs, e1 + 1, Digits)
        e3 == RunEnd(cs, e2 + 1, Digits)
        e4 == IF e3 < n /\ cs[e3] = "-" /\ RunEnd(cs, e3 + 1, SuffixClass) > e3 + 1
              THEN RunEnd(cs, e3 + 1, SuffixClass) ELSE e3
    IN  IF /\ n >= 1 /\ cs[1] = "v"
           /\ e1 > 2 /\ e1 <= n /\ cs[e1] = "."
           /\ e2 > e1 + 1 /\ e2 <= n /\ cs[e2] = "."
           /\ e3 > e2 + 1
        THEN <<SubSeq(t, 1, e4 - 1), SubSeq(t, 2, e1 - 1), SubSeq(t, e1 + 1, e2 - 1),
               SubSeq(t, e2 + 1, e3 - 1), SubSeq(t, e3, e4 - 1)>>
        ELSE NoMatch

\* semanticVersionRegex.FindStringSubmatch(tag) for
\*   ^v(\d+)\.(\d+)\.(\d+)(-[0-9A-Za-z-.]+)?$
\* the whole match and the four groups, or NoMatch.
semanticVersionRegex(t) ==
    LET cs == Chars(t)
        n  == Len(cs)
        e1 == RunEnd(cs, 2, Digits)
        e2 == RunEnd(cs, e1 + 1, Digits)
        e3 == RunEnd(cs, e2 + 1, Digits)
    IN  IF /\ n >= 1 /\ cs[1] = "v"
           /\ e1 > 2 /\ e1 <= n /\ cs[e1] = "."
           /\ e2 > e1 + 1 /\ e2 <= n /\ cs[e2] = "."
           /\ e3 > e2 + 1
           /\ \/ e3 = n + 1
              \/ /\ cs[e3] = "-"
                 /\ e3 < n
                 /\ RunEnd(cs, e3 + 1, SuffixClass) = n + 1
        THEN <<t, SubSeq(t, 2, e1 - 1), SubSeq(t, e1 + 1, e2 - 1),
               SubSeq(t, e2 + 1, e3 - 1), SubSeq(t, e3, n)>>
        ELSE NoMatch

NilVersion == [Major |-> 0, Minor |-> 0, Patch |-> 0, Suffix |-> "", Tag |-> "<nil>"]

\* ParseTagVersion(tag) = [ok, version]
ParseTagVersion(t) ==
    LET matches == semanticVersionRegex(t)
    IN  IF matches = NoMatch
        THEN [ok |-> FALSE, version |-> NilVersion]
        ELSE [ok |-> TRUE,
              version |-> [Major  |-> parseInt(matches[2]),
                           Minor  |-> parseInt(matches[3]),
                           Patch  |-> parseInt(matches[4]),
                           Suffix |-> matches[5],
                           Tag    |-> t]]

(***************************************************************************)
(* Version ordering                                                        *)
(***************************************************************************)

\* parseNumericIdentifier(id) = [num, ok]: ok iff id is a non-empty run of
\* ASCII digits that strconv.Atoi converts without error.
parseNumericIdentifier(id) ==
    LET cs == Chars(id)
    IN  IF id = ""
        THEN [num |-> 0, ok |-> FALSE]
        ELSE IF \E i \in 1..Len(cs) : Ord(cs[i]) < Ord("0") \/ Ord(cs[i]) > Ord("9")
        THEN [num |-> 0, ok |-> FALSE]
        ELSE LET r == Atoi(id)
             IN  IF r.err THEN [num |-> 0, ok |-> FALSE]
                 ELSE [num |-> r.val, ok |-> TRUE]

\* Variant of compareIdentifiers that compares a numeric identifier with an
\* alphanumeric one as strings.
RECURSIVE compareIdentifiersMixedLexical(_, _, _)
compareIdentifiersMixedLexical(ids1, ids2, i) ==
    IF ~(i <= Len(ids1) /\ i <= Len(ids2))
    THEN Len(ids1) > Len(ids2)
    ELSE LET id1 == ids1[i]
             id2 == ids2[i]
             n1  == parseNumericIdentifier(id1)
             n2  == parseNumericIdentifier(id2)
         IN  IF n1.ok /\ n2.ok
             THEN IF n1.num # n2.num THEN n1.num > n2.num
                  ELSE compareIdentifiersMixedLexical(ids1, ids2, i + 1)
             ELSE IF id1 # id2 THEN StringGreater(id1, id2)
                  ELSE compareIdentifiersMixedLexical(ids1, ids2, i + 1)

\* Variant of compareIdentifiers whose final rule prefers the shorter list.
RECURSIVE compareIdentifiersShorterWins(_, _, _)
compareIdentifiersShorterWins(ids1, ids2, i) ==
    IF ~(i <= Len(ids1) /\ i <= Len(ids2))
    THEN Len(ids1) < Len(ids2)
    ELSE LET id1 == ids1[i]
             id2 == ids2[i]
             n1  == parseNumericIdentifier(id1)
             n2  == parseNumericIdentifier(id2)
         IN  IF n1.ok /\ n2.ok
             THEN IF n1.num # n2.num THEN n1.num > n2.num
                  ELSE compareIdentifiersShorterWins(ids1, ids2, i + 1)
             ELSE IF n1.ok /\ ~n2.ok THEN FALSE
             ELSE IF ~n1.ok /\ n2.ok THEN TRUE
             ELSE IF id1 # id2 THEN StringGreater(id1, id2)
                  ELSE compareIdentifiersShorterWins(ids1, ids2, i + 1)

\* The loop of compareSuffixes from position i on, and the length rule
\* applied when one of the two lists is exhausted.
RECURSIVE compareIdentifiers(_, _, _)
compareIdentifiers(ids1, ids2, i) ==
    IF ~(i <= Len(ids1) /\ i <= Len(ids2))
    THEN Len(ids1) > Len(ids2)
    ELSE LET id1 == ids1[i]
             id2 == ids2[i]
             n1  == parseNumericIdentifier(id1)
             n2  == parseNumericIdentifier(id2)
         IN  IF n1.ok /\ n2.ok
             THEN IF n1.num # n2.num THEN n1.num > n2.num
                  ELSE compareIdentifiers(ids1, ids2, i + 1)
             ELSE IF n1.ok /\ ~n2.ok THEN FALSE
             ELSE IF ~n1.ok /\ n2.ok THEN TRUE
             ELSE IF id1 # id2 THEN StringGreater(id1, id2)
                  ELSE compareIdentifiers(ids1, ids2, i + 1)

\* Variant of compareSuffixes that compares two non-empty suffixes as whole
\* strings.
compareSuffixesLexical(suffix1, suffix2) ==
    IF suffix1 = "" /\ suffix2 # "" THEN TRUE
    ELSE IF suffix1 # "" /\ suffix2 = "" THEN FALSE
    ELSE StringGreater(suffix1, suffix2)

\* Variant of compareSuffixes without the rule for the empty suffix.
compareSuffixesNoStableRule(suffix1, suffix2) ==
    compareIdentifiers(Split(TrimPrefix(suffix1, "-"), "."),
                       Split(TrimPrefix(suffix2, "-"), "."), 1)

\* compareSuffixes(suffix1, suffix2): TRUE iff suffix1 > suffix2.
compareSuffixes(suffix1, suffix2) ==
    IF suffix1 = "" /\ suffix2 # "" THEN TRUE
    ELSE IF suffix1 # "" /\ suffix2 = "" THEN FALSE
    ELSE compareIdentifiers(Split(TrimPrefix(suffix1, "-"), "."),
                            Split(TrimPrefix(suffix2, "-"), "."), 1)

\* Variant of compareVersions that ranks a stable version above a
\* pre-release before looking at the version numbers.
compareVersionsStableFirst(version1, version2) ==
    IF version1.Suffix = "" /\ version2.Suffix # "" THEN TRUE
    ELSE IF version1.Suffix # "" /\ version2.Suffix = "" THEN FALSE
    ELSE IF version1.Major # version2.Major THEN version1.Major > version2.Major
    ELSE IF version1.Minor # version2.Minor THEN version1.Minor > version2.Minor
    ELSE IF version1.Patch # version2.Patch THEN version1.Patch > version2.Patch
    ELSE compareSuffixes(version1.Suffix, version2.Suffix)

\* compareVersions(version1, version2): TRUE iff version1 > version2.
compareVersions(version1, version2) ==
    IF version1.Major # version2.Major THEN version1.Major > version2.Major
    ELSE IF version1.Minor # version2.Minor THEN version1.Minor > version2.Minor
    ELSE IF version1.Patch # version2.Patch THEN version1.Patch > version2.Patch
    ELSE compareSuffixes(version1.Suffix, version2.Suffix)

\* sort.Slice sorts a slice of at most 12 elements by insertion sort, with
\* less(j, j-1) = compareVersions(vs[j], vs[j-1]).  The inner loop: swap the
\* element at j with its left neighbour while it is greater than it.
RECURSIVE insertionSink(_, _)
insertionSink(vs, j) ==
    IF j > 1 /\ compareVersions(vs[j], vs[j - 1])
    THEN insertionSink([vs EXCEPT ![j] = vs[j - 1], ![j - 1] = vs[j]], j - 1)
    ELSE vs

RECURSIVE insertionSortFrom(_, _)
insertionSortFrom(vs, i) ==
    IF i > Len(vs) THEN vs ELSE insertionSortFrom(insertionSink(vs, i), i + 1)

\* Variant that leaves the slice in the order of the iteration.
sortVersionsKeepsOrder(vs) == vs

\* sortVersions sorts a slice of semantic versions in descending order.
sortVersions(vs) == insertionSortFrom(vs, 2)

(***************************************************************************)
(* Latest-tag selection and next-tag computation                           *)
(***************************************************************************)

\* The nil error.
NoError == "<nil>"

\* getTagVersions: the versions of the tag names ParseTagVersion accepts,
\* in iteration order; the other names are skipped.
RECURSIVE getTagVersions(_)
getTagVersions(refs) ==
    IF refs = <<>> THEN <<>>
    ELSE LET r == ParseTagVersion(Head(refs))
         IN  (IF r.ok THEN <<r.version>> ELSE <<>>) \o getTagVersions(Tail(refs))

\* Variant that returns the last element of the sorted slice.
GetLatestTagLastElement(refs) ==
    LET sorted == sortVersions(getTagVersions(refs))
    IN  IF Len(sorted) > 0
        THEN [tag |-> sorted[Len(sorted)].Tag, err |-> NoError]
        ELSE [tag |-> "", err |-> NoError]

\* GetLatestTag(tagRefs) = [tag, err]: the Tag of the first element of the
\* slice sorted in descending order, "" when the slice is empty.
GetLatestTag(refs) ==
    LET sorted == sortVersions(getTagVersions(refs))
    IN  IF Len(sorted) > 0
        THEN [tag |-> sorted[1].Tag, err |-> NoError]
        ELSE [tag |-> "", err |-> NoError]

\* The verb %d of fmt.Sprintf: the decimal digits of n, "-" first when n < 0.
RECURSIVE FormatNat(_)
FormatNat(n) ==
    IF n < 10 THEN DigitChars[n + 1]
    ELSE FormatNat(n \div 10) \o DigitChars[(n % 10) + 1]

\* The nine decimal digits of m, zeros in front.
PadNine(m) ==
    LET ds == FormatNat(m)
    IN  SubSeq("000000000", 1, 9 - Len(ds)) \o ds

FormatInt(n) ==
    IF n >= WindowFloor THEN WindowDigits \o PadNine(n - WindowFloor)
    ELSE IF n <= 0 - WindowFloor THEN "-" \o WindowDigits \o PadNine(0 - (n + WindowFloor))
    ELSE IF n < 0 THEN "-" \o FormatNat(0 - n)
    ELSE FormatNat(n)

\* Variant whose empty suffix argument leaves the Suffix field alone.
updateVersionKeepsSuffix(version, bumpType, suffix) ==
    LET counted ==
            CASE bumpType = "major" ->
                   [version EXCEPT !.Major = Increment(@), !.Minor = 0, !.Patch = 0]
              [] bumpType = "minor" ->
                   [version EXCEPT !.Minor = Increment(@), !.Patch = 0]
              [] bumpType = "patch" ->
                   [version EXCEPT !.Patch = Increment(@)]
              [] OTHER -> version
    IN  IF bumpType \notin {"major", "minor", "patch"}
        THEN [err |-> "unknown bump type: " \o bumpType, version |-> version]
        ELSE [err |-> NoError,
              version |-> IF suffix # ""
                          THEN [counted EXCEPT !.Suffix = "-" \o suffix]
                          ELSE counted]

\* updateVersion(version, bumpType, suffix) = [err, version]: the switch on
\* bumpType, then the Suffix field set from the suffix argument.
updateVersion(version, bumpType, suffix) ==
    LET counted ==
            CASE bumpType = "major" ->
                   [version EXCEPT !.Major = Increment(@), !.Minor = 0, !.Patch = 0]
              [] bumpType = "minor" ->
                   [version EXCEPT !.Minor = Increment(@), !.Patch = 0]
              [] bumpType = "patch" ->
                   [version EXCEPT !.Patch = Increment(@)]
              [] OTHER -> version
    IN  IF bumpType \notin {"major", "minor", "patch"}
        THEN [err |-> "unknown bump type: " \o bumpType, version |-> version]
        ELSE [err |-> NoError,
              version |-> IF suffix # ""
                          THEN [counted EXCEPT !.Suffix = "-" \o suffix]
                          ELSE [counted EXCEPT !.Suffix = ""]]

\* Variant that validates the bump type before it parses the current tag.
GetNextTagKindFirst(currentTag, bumpType, suffix) ==
    LET p == ParseTagVersion(currentTag)
        u == updateVersion(p.version, bumpType, suffix)
    IN  IF u.err # NoError
        THEN [tag |-> "", err |-> u.err, version |-> NilVersion]
        ELSE IF ~p.ok
        THEN [tag |-> "", err |-> "invalid current tag format: " \o currentTag,
              version |-> NilVersion]
        ELSE [tag |-> "v" \o FormatInt(u.version.Major) \o "."
                          \o FormatInt(u.version.Minor) \o "."
                          \o FormatInt(u.version.Patch) \o u.version.Suffix,
              err |-> NoError, version |-> u.version]

\* GetNextTag(currentTag, bumpType, suffix) = [tag, err, version]; version
\* is the *tagVersion the function updated and formatted (NilVersion when
\* it returned an error).
GetNextTag(currentTag, bumpType, suffix) ==
    LET p == ParseTagVersion(currentTag)
        u == updateVersion(p.version, bumpType, suffix)
    IN  IF ~p.ok
        THEN [tag |-> "", err |-> "invalid current tag format: " \o currentTag,
              version |-> NilVersion]
        ELSE IF u.err # NoError
        THEN [tag |-> "", err |-> u.err, version |-> NilVersion]
        ELSE [tag |-> "v" \o FormatInt(u.version.Major) \o "."
                          \o FormatInt(u.version.Minor) \o "."
                          \o FormatInt(u.version.Patch) \o u.version.Suffix,
              err |-> NoError, version |-> u.version]

\* Variant that starts an empty repository at v0.0.1.
calculateNextVersionStartsAtPatch(latestTag, bumpType, suffix) ==
    IF latestTag = "" THEN [tag |-> "v0.0.1", err |-> NoError, version |-> NilVersion]
    ELSE GetNextTag(latestTag, bumpType, suffix)

\* calculateNextVersion(latestTag, bumpType, suffix) = [tag, err, version]
calculateNextVersion(latestTag, bumpType, suffix) ==
    IF latestTag = "" THEN [tag |-> "v0.1.0", err |-> NoError, version |-> NilVersion]
    ELSE GetNextTag(latestTag, bumpType, suffix)

(***************************************************************************)
(* The push preference in .git/config                                      *)
(*                                                                         *)
(* A config value is [state, bump]: state tells which of the checks made   *)
(* before the section is read fails ("ok" when none does), bump is the     *)
(* [bump] section, a function from its key names to their values.          *)
(***************************************************************************)

ConfigError(cfg) ==
    CASE cfg.state = "norepo"    -> "invalid repository path"
      [] cfg.state = "nofile"    -> "git config file not found"
      [] cfg.state = "noaccess"  -> "cannot access git config file"
      [] cfg.state = "malformed" -> "failed to load git config"
      [] OTHER                   -> NoError

\* Variant with the two-valued result: an explicit false reads as unset.
GetDefaultPushPreferenceTwoValued(cfg) ==
    IF cfg.state # "ok"
    THEN [val |-> FALSE, isSet |-> FALSE, err |-> ConfigError(cfg)]
    ELSE IF "defaultPush" \notin DOMAIN cfg.bump
    THEN [val |-> FALSE, isSet |-> FALSE, err |-> NoError]
    ELSE CASE cfg.bump["defaultPush"] = "true" ->
                [val |-> TRUE, isSet |-> TRUE, err |-> NoError]
           [] cfg.bump["defaultPush"] = "false" ->
                [val |-> FALSE, isSet |-> FALSE, err |-> NoError]
           [] OTHER ->
                [val |-> FALSE, isSet |-> FALSE,
                 err |-> "invalid defaultPush value: " \o cfg.bump["defaultPush"]
                             \o " (must be 'true' or 'false')"]

\* GetDefaultPushPreference(repoPath) = [val, isSet, err]
GetDefaultPushPreference(cfg) ==
    IF cfg.state # "ok"
    THEN [val |-> FALSE, isSet |-> FALSE, err |-> ConfigError(cfg)]
    ELSE IF "defaultPush" \notin DOMAIN cfg.bump
    THEN [val |-> FALSE, isSet |-> FALSE, err |-> NoError]
    ELSE CASE cfg.bump["defaultPush"] = "true" ->
                [val |-> TRUE, isSet |-> TRUE, err |-> NoError]
           [] cfg.bump["defaultPush"] = "false" ->
                [val |-> FALSE, isSet |-> TRUE, err |-> NoError]
           [] OTHER ->
                [val |-> FALSE, isSet |-> FALSE,
                 err |-> "invalid defaultPush value: " \o cfg.bump["defaultPush"]
                             \o " (must be 'true' or 'false')"]

\* The verb %v of fmt.Sprintf on a bool.
FormatBool(b) == IF b THEN "true" ELSE "false"

\* SetDefaultPushPreference(repoPath, value) = [err, config]: config is the
\* content of .git/config when the function returns; failing names the
\* file operation that fails ("none": no operation fails).
SetDefaultPushPreference(cfg, value, failing) ==
    IF cfg.state # "ok" THEN [err |-> ConfigError(cfg), config |-> cfg]
    ELSE IF failing = "SaveTo"
    THEN [err |-> "failed to write temporary config", config |-> cfg]
    ELSE IF failing = "Rename"
    THEN [err |-> "failed to update git config atomically", config |-> cfg]
    ELSE [err |-> NoError,
          config |-> [cfg EXCEPT !.bump = ("defaultPush" :> FormatBool(value)) @@ @]]

(***************************************************************************)
(* The bump workflow: BumpService.Bump and the command-line bump commands  *)
(*                                                                         *)
(* A run of the workflow is given the tag names of the repository (refs),  *)
(* and failing, the repository operation that fails in this run ("none":   *)
(* no operation fails).  It yields [res, err, calls, output, refs]: the    *)
(* returned result and error, the calls made on the repository and the     *)
(* lines printed, both in order, and the tag names afterwards.             *)
(***************************************************************************)

formatBumpMessage(t, pushed) ==
    IF pushed THEN "Successfully created and pushed tag " \o t
    ELSE "Successfully created tag " \o t \o ". To push, run: git push --tags"

formatDryRunMessage(t, wouldPush, updateFile) ==
    "Would create tag: " \o t \o "\n"
        \o (IF wouldPush THEN "Would push tag to remote\n" ELSE "")
        \o (IF updateFile # "" THEN "Would update file: " \o updateFile \o "\n" ELSE "")

\* The zero BumpResult (the value the model pairs with a non-nil error).
NoResult ==
    [NextTag |-> "", Pushed |-> FALSE, FileUpdated |-> FALSE,
     WouldPush |-> FALSE, WouldUpdate |-> FALSE, PreviousTag |-> ""]

\* The error of a repository operation that fails.
OperationError == "exit status 1"

\* The text of the error git.PlainOpen returns for a path without a
\* repository.
RepositoryNotExists == "repository does not exist"

\* Creating a tag fails when the operation fails in this run or when the
\* repository already has a tag of that name.
CreateTagFails(refs, name, failing) ==
    failing = "CreateTag" \/ \E i \in DOMAIN refs : refs[i] = name

\* The line printed when the repository has no semantic-version tag.
NoTagsNotice(latestTag, dryRun) ==
    IF latestTag # "" THEN <<>>
    ELSE IF dryRun THEN <<"No tags found, would start at v0.1.0\n">>
    ELSE <<"No tags found, starting at v0.1.0\n">>

\* Variant without the early return of the dry run.
BumpDryRunFallsThrough(refs, o, failing) ==
    LET Failed(err, cs, out, rs) ==
            [res |-> NoResult, err |-> err, calls |-> cs, output |-> out, refs |-> rs]
        \* the steps after latestTag (l) and nextTag (n) are computed
        Steps(l, n) ==
          LET notice  == NoTagsNotice(l.tag, o.DryRun)
              create  == <<<<"CreateTag", n.tag>>>>
              push    == IF o.Push THEN <<<<"PushTags">>>> ELSE <<>>
              update  == IF o.UpdateFile # ""
                         THEN <<<<"UpdateVersionFile", o.UpdateFile, n.tag>>>> ELSE <<>>
              created == Append(refs, n.tag)
              success == <<formatBumpMessage(n.tag, o.Push) \o "\n">>
          IN
          IF n.err # NoError
          THEN Failed("failed to determine next tag: " \o n.err, <<>>, <<>>, refs)
          ELSE IF CreateTagFails(refs, n.tag, failing)
          THEN Failed("failed to create tag: " \o OperationError, create, notice, refs)
          ELSE IF o.Push /\ failing = "PushTags"
          THEN Failed("failed to push tags: " \o OperationError,
                      create \o push, notice, created)
          ELSE IF o.UpdateFile # "" /\ failing = "UpdateVersionFile"
          THEN Failed("failed to update file: " \o OperationError,
                      create \o push \o update, notice \o success, created)
          ELSE [res |-> [NoResult EXCEPT !.NextTag = n.tag, !.Pushed = o.Push,
                                         !.FileUpdated = (o.UpdateFile # ""),
                                         !.PreviousTag = l.tag],
                err |-> NoError, calls |-> create \o push \o update,
                output |-> notice \o success, refs |-> created]
        FromLatest(l) ==
          IF l.err # NoError
          THEN Failed("failed to determine latest tag: " \o l.err, <<>>, <<>>, refs)
          ELSE Steps(l, calculateNextVersion(l.tag, o.BumpType, o.Suffix))
    IN  IF failing = "Tags"
        THEN Failed("failed to fetch tags: " \o OperationError, <<>>, <<>>, refs)
        ELSE FromLatest(GetLatestTag(refs))

\* Variant that goes on to the file update after PushTags failed.
BumpContinuesAfterPushFailure(refs, o, failing) ==
    LET Failed(err, cs, out, rs) ==
            [res |-> NoResult, err |-> err, calls |-> cs, output |-> out, refs |-> rs]
        \* the steps after latestTag (l) and nextTag (n) are computed
        Steps(l, n) ==
          LET notice  == NoTagsNotice(l.tag, o.DryRun)
              create  == <<<<"CreateTag", n.tag>>>>
              push    == IF o.Push THEN <<<<"PushTags">>>> ELSE <<>>
              update  == IF o.UpdateFile # ""
                         THEN <<<<"UpdateVersionFile", o.UpdateFile, n.tag>>>> ELSE <<>>
              created == Append(refs, n.tag)
              success == <<formatBumpMessage(n.tag, o.Push) \o "\n">>
          IN
          IF n.err # NoError
          THEN Failed("failed to determine next tag: " \o n.err, <<>>, <<>>, refs)
          ELSE IF o.DryRun
          THEN [res |-> [NoResult EXCEPT !.NextTag = n.tag, !.WouldPush = o.Push,
                                         !.WouldUpdate = (o.UpdateFile # ""),
                                         !.PreviousTag = l.tag],
                err |-> NoError, calls |-> <<>>,
                output |-> NoTagsNotice(l.tag, TRUE)
                               \o <<formatDryRunMessage(n.tag, o.Push, o.UpdateFile)>>,
                refs |-> refs]
          ELSE IF CreateTagFails(refs, n.tag, failing)
          THEN Failed("failed to create tag: " \o OperationError, create, notice, refs)
          ELSE IF o.Push /\ failing = "PushTags"
          THEN Failed("failed to push tags: " \o OperationError,
                      create \o push \o update, notice, created)
          ELSE IF o.UpdateFile # "" /\ failing = "UpdateVersionFile"
          THEN Failed("failed to update file: " \o OperationError,
                      create \o push \o update, notice \o success, created)
          ELSE [res |-> [NoResult EXCEPT !.NextTag = n.tag, !.Pushed = o.Push,
                                         !.FileUpdated = (o.UpdateFile # ""),
                                         !.PreviousTag = l.tag],
                err |-> NoError, calls |-> create \o push \o update,
                output |-> notice \o success, refs |-> created]
        FromLatest(l) ==
          IF l.err # NoError
          THEN Failed("failed to determine latest tag: " \o l.err, <<>>, <<>>, refs)
          ELSE Steps(l, calculateNextVersion(l.tag, o.BumpType, o.Suffix))
    IN  IF failing = "Tags"
        THEN Failed("failed to fetch tags: " \o OperationError, <<>>, <<>>, refs)
        ELSE FromLatest(GetLatestTag(refs))

\* BumpService.Bump(opts)
Bump(refs, o, failing) ==
    LET Failed(err, cs, out, rs) ==
            [res |-> NoResult, err |-> err, calls |-> cs, output |-> out, refs |-> rs]
        \* the steps after latestTag (l) and nextTag (n) are computed
        Steps(l, n) ==
          LET notice  == NoTagsNotice(l.tag, o.DryRun)
              create  == <<<<"CreateTag", n.tag>>>>
              push    == IF o.Push THEN <<<<"PushTags">>>> ELSE <<>>
              update  == IF o.UpdateFile # ""
                         THEN <<<<"UpdateVersionFile", o.UpdateFile, n.tag>>>> ELSE <<>>
              created == Append(refs, n.tag)
              success == <<formatBumpMessage(n.tag, o.Push) \o "\n">>
          IN
          IF n.err # NoError
          THEN Failed("failed to determine next tag: " \o n.err, <<>>, <<>>, refs)
          ELSE IF o.DryRun
          THEN [res |-> [NoResult EXCEPT !.NextTag = n.tag, !.WouldPush = o.Push,
                                         !.WouldUpdate = (o.UpdateFile # ""),
                                         !.PreviousTag = l.tag],
                err |-> NoError, calls |-> <<>>,
                output |-> NoTagsNotice(l.tag, TRUE)
                               \o <<formatDryRunMessage(n.tag, o.Push, o.UpdateFile)>>,
                refs |-> refs]
          ELSE IF CreateTagFails(refs, n.tag, failing)
          THEN Failed("failed to create tag: " \o OperationError, create, notice, refs)
          ELSE IF o.Push /\ failing = "PushTags"
          THEN Failed("failed to push tags: " \o OperationError,
                      create \o push, notice, created)
          ELSE IF o.UpdateFile # "" /\ failing = "UpdateVersionFile"
          THEN Failed("failed to update file: " \o OperationError,
                      create \o push \o update, notice \o success, created)
          ELSE [res |-> [NoResult EXCEPT !.NextTag = n.tag, !.Pushed = o.Push,
                                         !.FileUpdated = (o.UpdateFile # ""),
                                         !.PreviousTag = l.tag],
                err |-> NoError, calls |-> create \o push \o update,
                output |-> notice \o success, refs |-> created]
        FromLatest(l) ==
          IF l.err # NoError
          THEN Failed("failed to determine latest tag: " \o l.err, <<>>, <<>>, refs)
          ELSE Steps(l, calculateNextVersion(l.tag, o.BumpType, o.Suffix))
    IN  IF failing = "Tags"
        THEN Failed("failed to fetch tags: " \o OperationError, <<>>, <<>>, refs)
        ELSE FromLatest(GetLatestTag(refs))

\* Variant in which the configured preference, when set, overrides the
\* command line.
doPushConfigFirst(flags, cfg) ==
    LET p == GetDefaultPushPreference(cfg)
    IN  IF p.err = NoError /\ p.isSet THEN p.val
        ELSE IF flags.pushSet THEN flags.push
        ELSE FALSE

\* The value of doPush in the Action of a bump command: flags.pushSet is
\* c.IsSet("push"), flags.push is c.Bool("push").
doPush(flags, cfg) ==
    IF flags.pushSet THEN flags.push
    ELSE LET p == GetDefaultPushPreference(cfg)
         IN  IF p.err = NoError /\ p.isSet THEN p.val ELSE FALSE

(***************************************************************************)
(* Input pools.  Every version handed to the comparator is the result of   *)
(* ParseTagVersion on a tag the parser accepts.                            *)
(***************************************************************************)

\* Largest number of dot-separated identifiers in a generated pre-release.
MaxIds == 2

\* The dot-joined lists of exactly k identifiers of pool.
RECURSIVE IdLists(_, _)
IdLists(pool, k) ==
    IF k = 1 THEN pool
    ELSE {l \o "." \o id : l \in IdLists(pool, k - 1), id \in pool}

\* The Suffix values with at most maxIds identifiers of pool, "" included.
Suffixes(pool, maxIds) ==
    {""} \cup {"-" \o l : l \in UNION {IdLists(pool, k) : k \in 1..maxIds}}

VersionsOf(tags) == {ParseTagVersion(t).version : t \in tags}

\* Identifiers of the pair pool: numeric ones whose numeric and lexical
\* order differ, one with a leading zero, alphanumeric ones, and digit-only
\* ones beyond the int range.
CompareIds == {"2", "11", "02", "a", "1a", "9223372036854775808", "10000000000000000000"}

CompareCores == {"v1.0.0", "v1.0.1", "v1.1.0", "v2.0.0", "v10.0.0"}

CompareTags ==
    {"v1.0.0" \o s : s \in Suffixes(CompareIds, MaxIds)}
        \cup {c \o s : c \in CompareCores, s \in {"", "-a", "-2"}}

\* Identifiers and tags of the triple pool.
OrderIds == {"2", "11", "1a"}

OrderTags ==
    {"v1.0.0" \o s : s \in Suffixes(OrderIds, MaxIds)}
        \cup {c \o s : c \in {"v1.0.1", "v1.1.0", "v2.0.0"}, s \in {"", "-2"}}

\* The canonical SemVer 2.0 precedence chain of TestSortVersionsSemVer2,
\* in descending order.
SemVer2Chain ==
    <<"v1.0.0", "v1.0.0-rc.1", "v1.0.0-beta.11", "v1.0.0-beta.2",
      "v1.0.0-beta", "v1.0.0-alpha.beta", "v1.0.0-alpha.1", "v1.0.0-alpha">>

(***************************************************************************)
(* Specifications of the comparator: versions are drawn, compareVersions   *)
(* is applied to every ordered pair of them (SpecCompare: two versions,    *)
(* SpecOrder: three versions), or sortVersions to the slice (SpecSort).    *)
(***************************************************************************)

NotParsed == [ok |-> FALSE, version |-> NilVersion]

\* The values of the variables an operation does not use.
NoArgs == [currentTag |-> "", bumpType |-> "", suffix |-> ""]

NoTag == [tag |-> "", err |-> NoError]

NoNext == [tag |-> "", err |-> NoError, version |-> NilVersion]

CoreIdle == tag = "" /\ parsed = NotParsed /\ versions = <<>> /\ greater = <<>>

TagIdle == tagRefs = <<>> /\ latest = NoTag /\ args = NoArgs /\ next = NoNext

NoConfig == [state |-> "norepo", bump |-> <<>>]

NoFlags ==
    [suffix |-> "", updateFile |-> "", pushSet |-> FALSE, push |-> FALSE, dryRun |-> FALSE]

NoOptions ==
    [BumpType |-> "", Suffix |-> "", UpdateFile |-> "", Push |-> FALSE, DryRun |-> FALSE]

NoOutcome == [res |-> NoResult, err |-> NoError]

NoPreference == [val |-> FALSE, isSet |-> FALSE, err |-> NoError]

RunIdle ==
    /\ config = NoConfig /\ cli = NoFlags /\ opts = NoOptions /\ result = NoOutcome
    /\ calls = <<>> /\ output = <<>> /\ pref = NoPreference /\ fault = "none"
    /\ snapshot = <<>> /\ concurrent = <<>>

\* NewGitInfo has not returned.
NoInfo == [versions |-> <<>>, err |-> NoError]

\* No file .git/bump.lock.
NoFile == [exists |-> FALSE, by |-> "", stale |-> FALSE]

LockIdle ==
    lockFile = NoFile /\ repoMutex = <<>> /\ caller = <<>> /\ invocation = <<>>

InitCompare ==
    /\ pc = "compare"
    /\ info = NoInfo
    /\ versions \in [1..2 -> VersionsOf(CompareTags)]
    /\ greater = <<>>
    /\ tag = ""
    /\ parsed = NotParsed
    /\ TagIdle /\ RunIdle /\ LockIdle

InitOrder ==
    /\ pc = "compare"
    /\ info = NoInfo
    /\ versions \in [1..3 -> VersionsOf(OrderTags)]
    /\ greater = <<>>
    /\ tag = ""
    /\ parsed = NotParsed
    /\ TagIdle /\ RunIdle /\ LockIdle

InitSort ==
    /\ pc = "sort"
    /\ info = NoInfo
    /\ \E p \in Permutations(1..Len(SemVer2Chain)) :
           versions = [i \in 1..Len(SemVer2Chain) |->
                          ParseTagVersion(SemVer2Chain[p[i]]).version]
    /\ greater = <<>>
    /\ tag = ""
    /\ parsed = NotParsed
    /\ TagIdle /\ RunIdle /\ LockIdle

CallCompareVersions ==
    /\ pc = "compare"
    /\ greater' = [i \in DOMAIN versions |->
                     [j \in DOMAIN versions |-> compareVersions(versions[i], versions[j])]]
    /\ pc' = "compared"
    /\ UNCHANGED <<info, lockVars, versions, tag, parsed, tagVars, runVars>>

CallSortVersions ==
    /\ pc = "sort"
    /\ versions' = sortVersions(versions)
    /\ pc' = "sorted"
    /\ UNCHANGED <<info, lockVars, greater, tag, parsed, tagVars, runVars>>

NextCompare == CallCompareVersions

NextSort == CallSortVersions

SpecCompare == InitCompare /\ [][NextCompare]_vars

SpecOrder == InitOrder /\ [][NextCompare]_vars

SpecSort == InitSort /\ [][NextSort]_vars

(***************************************************************************)
(* Specification of the parser: a tag string is drawn, ParseTagVersion     *)
(* is applied to it.                                                       *)
(***************************************************************************)

\* Largest number of characters in a generated version-number group.
MaxGroupLen == 2

\* The strings of exactly k characters of alphabet.
RECURSIVE StringsOfLen(_, _)
StringsOfLen(alphabet, k) ==
    IF k = 0 THEN {""}
    ELSE {w \o c : w \in StringsOfLen(alphabet, k - 1), c \in alphabet}

\* Candidate version-number groups: short ones over digits and a letter
\* (the empty group included), and digit runs of 19 to 21 characters: 2^63,
\* a 20-digit number, and a small number behind many leading zeros.
ShortGroups == UNION {StringsOfLen({"0", "7", "a"}, k) : k \in 0..MaxGroupLen}

HugeGroups == {"9223372036854775808", "99999999999999999999", "000000000000000000007"}

\* Candidate pre-release identifiers, the empty one and one with a
\* character outside [0-9A-Za-z-] included.
ParseIds == {"alpha", "1", "", "a_b", "x-1"}

\* Tags that vary the prefix, the three groups and the separators.
CoreInputs ==
    {p \o g1 \o s1 \o g2 \o s2 \o g3 :
        p \in {"v", "", "V", " v"}, g1 \in ShortGroups \cup HugeGroups,
        s1 \in {".", "", "-"}, g2 \in {"2", "", "04"},
        s2 \in {".", "", "-"}, g3 \in {"3", "", "04"}}

\* Tags that vary what follows a well-formed core.
SuffixInputs ==
    {"v1.2." \o g3 \o pre \o trail :
        g3 \in {"3", "99999999999999999999"},
        pre \in Suffixes(ParseIds, MaxIds),
        trail \in {"", " ", "+b", "\n"}}

\* The tags named by the tests of ParseTagVersion and by the tag grammar.
NamedInputs ==
    {"v1.2.3-alpha", "v1.2.3-beta.1", "1.2.3", "v1.2", "vabc", "v", "",
     "v1.0.0-alpha..1", "v1.0.0-.", "v1.0.0-alpha."}

ParseInputs == CoreInputs \cup SuffixInputs \cup NamedInputs

InitParse ==
    /\ pc = "parse"
    /\ info = NoInfo
    /\ tag \in ParseInputs
    /\ parsed = NotParsed
    /\ versions = <<>>
    /\ greater = <<>>
    /\ TagIdle /\ RunIdle /\ LockIdle

CallParseTagVersion ==
    /\ pc = "parse"
    /\ parsed' = ParseTagVersion(tag)
    /\ pc' = "parsed"
    /\ UNCHANGED <<info, lockVars, tag, versions, greater, tagVars, runVars>>

NextParse == CallParseTagVersion

SpecParse == InitParse /\ [][NextParse]_vars

(***************************************************************************)
(* Properties of the comparator (SpecOrder, SpecSort, SpecCompare)         *)
(***************************************************************************)

Core(v) == <<v.Major, v.Minor, v.Patch>>

\* The pre-release identifiers of a non-empty Suffix.
Identifiers(suffix) == Split(SubSeq(suffix, 2, Len(suffix)), ".")

DigitsOnly(id) == id # "" /\ \A i \in 1..Len(id) : SubSeq(id, i, i) \in Digits

\* x > y for the numbers written by two digit-only identifiers of any length.
DecimalGreater(x, y) ==
    LET dx == StripLeadingZeros(Chars(x))
        dy == StripLeadingZeros(Chars(y))
    IN  \/ Len(dx) > Len(dy)
        \/ Len(dx) = Len(dy) /\ \E k \in 1..Len(dx) :
                /\ \A m \in 1..(k - 1) : dx[m] = dy[m]
                /\ DigitVal(dx[k]) > DigitVal(dy[k])

\* The first position at which two identifier lists differ, 0 if they agree
\* on all shared positions.
FirstDifference(ids1, ids2) ==
    LET shared == IF Len(ids1) < Len(ids2) THEN Len(ids1) ELSE Len(ids2)
        diff   == {k \in 1..shared : ids1[k] # ids2[k]}
    IN  IF diff = {} THEN 0 ELSE CHOOSE k \in diff : \A m \in diff : k <= m

\* versions[i] and versions[j] have the same version numbers and both carry a
\* pre-release.
BothPreRelease(i, j) ==
    /\ Core(versions[i]) = Core(versions[j])
    /\ versions[i].Suffix # ""
    /\ versions[j].Suffix # ""

\* C1: compareVersions is a strict total order on parsed versions:
\* transitive, antisymmetric, never true of two versions with identical
\* fields, and its EQUAL outcome (neither version greater) is transitive, so
\* that exactly one of greater, lower, equal orders every pair consistently.
C1_StrictTotalOrder ==
    pc = "compared" =>
        /\ \A i, j, k \in DOMAIN versions :
             greater[i][j] /\ greater[j][k] => greater[i][k]
        /\ \A i, j \in DOMAIN versions : ~(greater[i][j] /\ greater[j][i])
        /\ \A i, j \in DOMAIN versions :
             Core(versions[i]) = Core(versions[j])
               /\ versions[i].Suffix = versions[j].Suffix => ~greater[i][j]
        /\ \A i, j, k \in DOMAIN versions :
             (~greater[i][j] /\ ~greater[j][i] /\ ~greater[j][k] /\ ~greater[k][j])
                => (~greater[i][k] /\ ~greater[k][i])

\* A descending chain across an alphanumeric and two numeric identifiers has
\* been compared.
C1_Witness ==
    /\ pc = "compared"
    /\ Len(versions) = 3
    /\ versions[1].Tag = "v1.0.0-1a"
    /\ versions[2].Tag = "v1.0.0-11"
    /\ versions[3].Tag = "v1.0.0-2"
    /\ greater[1][2] /\ greater[2][3] /\ greater[1][3]

\* C2: sortVersions turns every permutation of the eight versions of the
\* canonical SemVer 2.0 chain into the descending chain v1.0.0, v1.0.0-rc.1,
\* v1.0.0-beta.11, v1.0.0-beta.2, v1.0.0-beta, v1.0.0-alpha.beta,
\* v1.0.0-alpha.1, v1.0.0-alpha.
C2_SortsSemVer2Chain ==
    pc = "sorted" => [i \in 1..Len(versions) |-> versions[i].Tag] = SemVer2Chain

\* The slice has been sorted and the stable version leads it.
C2_Witness ==
    /\ pc = "sorted"
    /\ Len(versions) = 8
    /\ versions[1].Tag = "v1.0.0"
    /\ versions[8].Tag = "v1.0.0-alpha"

\* C3: when two versions differ in (major, minor, patch), compareVersions is
\* decided by the first differing component in the order major, minor,
\* patch, compared numerically, whatever the two suffixes are.
C3_CoreDecidesFirst ==
    pc = "compared" =>
        \A i, j \in DOMAIN versions :
            Core(versions[i]) # Core(versions[j]) =>
                LET k == CHOOSE k \in 1..3 :
                           /\ Core(versions[i])[k] # Core(versions[j])[k]
                           /\ \A m \in 1..(k - 1) : Core(versions[i])[m] = Core(versions[j])[m]
                IN  greater[i][j] <=> Core(versions[i])[k] > Core(versions[j])[k]

\* v2.0.0-a has been found greater than the stable v1.0.0.
C3_Witness ==
    /\ pc = "compared"
    /\ versions[1].Tag = "v2.0.0-a"
    /\ versions[2].Tag = "v1.0.0"
    /\ greater[1][2]
    /\ ~greater[2][1]

\* C4: of two versions with equal (major, minor, patch), the one without a
\* pre-release suffix is greater than the one with a non-empty suffix, and
\* never the reverse.
C4_StableAbovePreRelease ==
    pc = "compared" =>
        \A i, j \in DOMAIN versions :
            (/\ Core(versions[i]) = Core(versions[j])
             /\ versions[i].Suffix = ""
             /\ versions[j].Suffix # "")
                => (greater[i][j] /\ ~greater[j][i])

\* The stable v1.0.0 has been compared with a pre-release of v1.0.0.
C4_Witness ==
    /\ pc = "compared"
    /\ versions[1].Tag = "v1.0.0"
    /\ versions[2].Tag = "v1.0.0-a.2"
    /\ greater[1][2]

\* C5: when the identifiers at the first differing position are both
\* digit-only, the suffix whose identifier is the greater number is the
\* greater suffix, for digit-only identifiers of every length.
C5_NumericIdentifiersByValue ==
    pc = "compared" =>
        \A i, j \in DOMAIN versions :
            BothPreRelease(i, j) =>
                LET ids1 == Identifiers(versions[i].Suffix)
                    ids2 == Identifiers(versions[j].Suffix)
                    k    == FirstDifference(ids1, ids2)
                IN  (/\ k # 0
                     /\ DigitsOnly(ids1[k])
                     /\ DigitsOnly(ids2[k])
                     /\ DecimalGreater(ids1[k], ids2[k]))
                        => (greater[i][j] /\ ~greater[j][i])

\* C6: at the first differing position, a digit-only identifier is lower
\* than an alphanumeric one, and two alphanumeric identifiers are ordered by
\* ASCII string comparison.
C6_NumericBelowAlphanumeric ==
    pc = "compared" =>
        \A i, j \in DOMAIN versions :
            BothPreRelease(i, j) =>
                LET ids1 == Identifiers(versions[i].Suffix)
                    ids2 == Identifiers(versions[j].Suffix)
                    k    == FirstDifference(ids1, ids2)
                IN  k # 0 =>
                      /\ (DigitsOnly(ids1[k]) /\ ~DigitsOnly(ids2[k]))
                            => (greater[j][i] /\ ~greater[i][j])
                      /\ (~DigitsOnly(ids1[k]) /\ ~DigitsOnly(ids2[k]))
                            => (greater[i][j] <=> StringGreater(ids1[k], ids2[k]))

\* C7: when one identifier list is a proper prefix of the other, the version
\* with more identifiers is greater; versions with identical suffixes compare
\* equal in both directions.
C7_LongerListAbovePrefix ==
    pc = "compared" =>
        \A i, j \in DOMAIN versions :
            /\ BothPreRelease(i, j) =>
                LET ids1 == Identifiers(versions[i].Suffix)
                    ids2 == Identifiers(versions[j].Suffix)
                IN  (Len(ids1) < Len(ids2) /\ FirstDifference(ids1, ids2) = 0)
                        => (greater[j][i] /\ ~greater[i][j])
            /\ (Core(versions[i]) = Core(versions[j])
                  /\ versions[i].Suffix = versions[j].Suffix)
                        => (~greater[i][j] /\ ~greater[j][i])

\* v1.0.0-a.2 has been found greater than its prefix v1.0.0-a.
C7_Witness ==
    /\ pc = "compared"
    /\ versions[1].Tag = "v1.0.0-a.2"
    /\ versions[2].Tag = "v1.0.0-a"
    /\ greater[1][2]
    /\ ~greater[2][1]

(***************************************************************************)
(* Properties of ParseTagVersion (SpecParse)                               *)
(***************************************************************************)

\* The tag grammar v<digits>.<digits>.<digits>(-<block>)?, stated by the
\* positions d1, d2 of the two dots and the position e just behind the third
\* group; the block is a non-empty run of characters of [0-9A-Za-z-.].
BlockChars == Range(Chars("0123456789")) \cup Range(Chars("abcdefghijklmnopqrstuvwxyz"))
                \cup Range(Chars("ABCDEFGHIJKLMNOPQRSTUVWXYZ")) \cup {"-", "."}

AllIn(cs, from, to, set) == \A i \in from..to : cs[i] \in set

TagGrammar(t) ==
    LET cs == Chars(t)
        n  == Len(cs)
    IN  /\ n >= 1
        /\ cs[1] = "v"
        /\ \E d1 \in 3..n :
             /\ cs[d1] = "."
             /\ AllIn(cs, 2, d1 - 1, Digits)
             /\ \E d2 \in (d1 + 2)..n :
                  /\ cs[d2] = "."
                  /\ AllIn(cs, d1 + 1, d2 - 1, Digits)
                  /\ \E e \in (d2 + 2)..(n + 1) :
                       /\ AllIn(cs, d2 + 1, e - 1, Digits)
                       /\ \/ e = n + 1
                          \/ /\ e < n
                             /\ cs[e] = "-"
                             /\ AllIn(cs, e + 1, n, BlockChars)

HasDash(t) == \E i \in 1..Len(t) : SubSeq(t, i, i) = "-"

\* C8: ParseTagVersion(tag) succeeds exactly when the whole tag matches
\* v<digits>.<digits>.<digits> optionally followed by "-" and a pre-release
\* block (a non-empty run of [0-9A-Za-z-.]); "v1.2", "vabc", "v", "" and
\* "1.2.3" are rejected; on success Tag is the input and Suffix is empty
\* exactly when the tag has no pre-release block.
C8_ParseMatchesWholeTag ==
    pc = "parsed" =>
        /\ parsed.ok <=> TagGrammar(tag)
        /\ tag \in {"v1.2", "vabc", "v", "", "1.2.3"} => ~parsed.ok
        /\ parsed.ok => /\ parsed.version.Tag = tag
                        /\ (parsed.version.Suffix = "") <=> ~HasDash(tag)

\* An accepted tag with a pre-release block has been parsed.
C8_Witness ==
    /\ pc = "parsed"
    /\ parsed.ok
    /\ parsed.version.Suffix = "-alpha.1"
    /\ tag = "v1.2.3-alpha.1"

\* C9: an accepted tag with a pre-release block has only non-empty
\* dot-separated identifiers, each made of characters of [0-9A-Za-z-].
C9_IdentifiersNonEmpty ==
    (pc = "parsed" /\ parsed.ok /\ parsed.version.Suffix # "") =>
        LET ids == Split(TrimPrefix(parsed.version.Suffix, "-"), ".")
        IN  \A i \in 1..Len(ids) :
                /\ ids[i] # ""
                /\ AllIn(Chars(ids[i]), 1, Len(ids[i]), BlockChars \ {"."})

\* C10: for an accepted tag, Major, Minor and Patch are the base-10 values of
\* the three digit groups, whatever their length: a group of at most nine
\* significant digits has exactly its value, a longer one a value of at
\* least 10^9.
C10_GroupsParsedBase10 ==
    (pc = "parsed" /\ parsed.ok) =>
        LET cs     == Chars(tag)
            coreTo == IF HasDash(tag)
                      THEN (CHOOSE i \in 1..Len(cs) :
                               cs[i] = "-" /\ \A j \in 1..(i - 1) : cs[j] # "-") - 1
                      ELSE Len(cs)
            groups == Split(SubSeq(tag, 2, coreTo), ".")
            fields == <<parsed.version.Major, parsed.version.Minor, parsed.version.Patch>>
        IN  /\ Len(groups) = 3
            /\ \A k \in 1..3 :
                 LET ds == StripLeadingZeros(Chars(groups[k]))
                 IN  IF Len(ds) <= 9 THEN fields[k] = DigitsValue(ds, 1, 0)
                     ELSE fields[k] >= 1000000000

(***************************************************************************)
(* Specification of the selection of the latest tag: the tag names of a    *)
(* repository are drawn, GetLatestTag is applied to them.                  *)
(***************************************************************************)

\* Largest number of tags in a generated repository.
MaxTagRefs == 3

\* The sequences of exactly k distinct elements of pool (tag names are
\* unique within a repository).
RECURSIVE DistinctSeqs(_, _)
DistinctSeqs(pool, k) ==
    IF k = 0 THEN {<<>>}
    ELSE UNION {{Append(q, x) : x \in pool \ Range(q)} : q \in DistinctSeqs(pool, k - 1)}

\* Tag names of the generated repositories: semantic versions (two pairs of
\* them equal in precedence, one with a group beyond the int range) and the
\* non-semver names of TestGetLatestTagNonSemVer.
LatestNames ==
    {"v1.0.0", "v1.0.0-rc.1", "v0.9.9", "v01.0.0", "v1.0.0-rc.01",
     "v9223372036854775808.0.0", "release", "foo", "v1.2"}

InitLatest ==
    /\ pc = "latest"
    /\ info = NoInfo
    /\ tagRefs \in UNION {DistinctSeqs(LatestNames, k) : k \in 0..MaxTagRefs}
    /\ latest = NoTag
    /\ args = NoArgs
    /\ next = NoNext
    /\ CoreIdle /\ RunIdle /\ LockIdle

CallGetLatestTag ==
    /\ pc = "latest"
    /\ latest' = GetLatestTag(tagRefs)
    /\ pc' = "selected"
    /\ UNCHANGED <<info, lockVars, tagRefs, args, next, coreVars, runVars>>

NextLatest == CallGetLatestTag

SpecLatest == InitLatest /\ [][NextLatest]_vars

(***************************************************************************)
(* Properties of the selection (SpecLatest)                                *)
(***************************************************************************)

\* The positions of tagRefs whose name ParseTagVersion accepts.
Accepted == {i \in DOMAIN tagRefs : ParseTagVersion(tagRefs[i]).ok}

VersionAt(i) == ParseTagVersion(tagRefs[i]).version

\* C11: GetLatestTag returns no error; the names ParseTagVersion rejects are
\* discarded; when no name is accepted the result is the empty string, and
\* otherwise it is the tag of an accepted version that no other accepted
\* version of the collection is greater than under compareVersions.
C11_LatestIsMaximal ==
    pc = "selected" =>
        /\ latest.err = NoError
        /\ IF Accepted = {} THEN latest.tag = ""
           ELSE \E i \in Accepted :
                    /\ latest.tag = tagRefs[i]
                    /\ \A j \in Accepted : ~compareVersions(VersionAt(j), VersionAt(i))

\* Reached: a repository with a rejected name and two accepted versions,
\* the greater of which comes later in iteration order and is returned.
C11_Witness ==
    /\ pc = "selected"
    /\ \E i \in DOMAIN tagRefs : i \notin Accepted
    /\ \E i, j \in Accepted :
           /\ i < j
           /\ compareVersions(VersionAt(j), VersionAt(i))
           /\ latest.tag = tagRefs[j]

(***************************************************************************)
(* Specification of the next-tag computation: a current tag, a bump type   *)
(* and a suffix are drawn, GetNextTag or calculateNextVersion is applied   *)
(* to them.                                                                *)
(***************************************************************************)

\* Version-number groups that carry into a new digit when incremented, with
\* and without leading zeros.
NextGroups == UNION {StringsOfLen({"0", "9"}, k) : k \in 1..MaxGroupLen}

\* Current tags: every group position varied, the tags of TestGetNextTag
\* and TestCalculateNextVersion, groups beyond the int range, groups that
\* are the largest int, and strings ParseTagVersion rejects.
NextCurrentTags ==
    {"v" \o g \o ".2.3" : g \in NextGroups}
        \cup {"v1." \o g \o ".3" : g \in NextGroups}
        \cup {"v1.2." \o g : g \in NextGroups}
        \cup {"v1.2.3", "v0.1.0-prerelease", "v0.1.0", "v0.1.1", "v2.5.9",
              "v1.2.3-rc.1", "v9223372036854775808.2.3", "v1.2.99999999999999999999",
              "v9223372036854775807.2.3", "v1.2.9223372036854775807"}
        \cup {"", "v", "1.2.3", "invalid", "v1.2.3 "}

BumpTypes == {"major", "minor", "patch", "invalid", "", "Major"}

\* Suffix arguments: empty, those of the tests, and strings with characters
\* outside [0-9A-Za-z-.].
NextSuffixes == {"", "prerelease", "rc1", "beta.1", "a b", "a_b", "+build", "alpha..1"}

InitNextTag ==
    /\ pc = "next"
    /\ info = NoInfo
    /\ args \in [currentTag : NextCurrentTags, bumpType : BumpTypes, suffix : NextSuffixes]
    /\ next = NoNext
    /\ tagRefs = <<>>
    /\ latest = NoTag
    /\ CoreIdle /\ RunIdle /\ LockIdle

CallGetNextTag ==
    /\ pc = "next"
    /\ next' = GetNextTag(args.currentTag, args.bumpType, args.suffix)
    /\ pc' = "GetNextTag"
    /\ UNCHANGED <<info, lockVars, args, tagRefs, latest, coreVars, runVars>>

CallCalculateNextVersion ==
    /\ pc = "next"
    /\ next' = calculateNextVersion(args.currentTag, args.bumpType, args.suffix)
    /\ pc' = "calculateNextVersion"
    /\ UNCHANGED <<info, lockVars, args, tagRefs, latest, coreVars, runVars>>

NextNextTag == CallGetNextTag \/ CallCalculateNextVersion

SpecNextTag == InitNextTag /\ [][NextNextTag]_vars

(***************************************************************************)
(* Properties of the next-tag computation (SpecNextTag)                    *)
(***************************************************************************)

ValidBumpTypes == {"major", "minor", "patch"}

\* The decimal numeral after the one written by the digit string s.
RECURSIVE DecimalSucc(_)
DecimalSucc(s) ==
    IF Len(s) = 0 THEN "1"
    ELSE LET last  == SubSeq(s, Len(s), Len(s))
             front == SubSeq(s, 1, Len(s) - 1)
         IN  IF last = "9" THEN DecimalSucc(front) \o "0"
             ELSE front \o DigitChars[DigitVal(last) + 2]

\* The digit string s without its leading zeros.
Canonical(s) == SubSeq(s, FirstSignificant(Chars(s), 1), Len(s))

\* The end of the %d rendering that starts at position i of cs: an optional
\* minus sign and the run of digits after it.
NumberEnd(cs, i) ==
    IF i <= Len(cs) /\ cs[i] = "-" THEN RunEnd(cs, i + 1, Digits)
    ELSE RunEnd(cs, i, Digits)

\* The three number groups of a tag of the form v<number>.<number>.<number>...
GroupsOf(t) ==
    LET cs == Chars(t)
        e1 == NumberEnd(cs, 2)
        e2 == NumberEnd(cs, e1 + 1)
        e3 == NumberEnd(cs, e2 + 1)
    IN  [major |-> SubSeq(t, 2, e1 - 1), minor |-> SubSeq(t, e1 + 1, e2 - 1),
         patch |-> SubSeq(t, e2 + 1, e3 - 1), rest |-> SubSeq(t, e3, Len(t))]

\* The core the transition table prescribes for current tag t and kind k.
TransitionTable(t, k) ==
    LET g == GroupsOf(t)
    IN  CASE k = "major" -> "v" \o DecimalSucc(Canonical(g.major)) \o ".0.0"
          [] k = "minor" -> "v" \o Canonical(g.major) \o "."
                                \o DecimalSucc(Canonical(g.minor)) \o ".0"
          [] k = "patch" -> "v" \o Canonical(g.major) \o "." \o Canonical(g.minor)
                                \o "." \o DecimalSucc(Canonical(g.patch))

\* The core v<major>.<minor>.<patch> of a returned tag.
CoreText(t) == SubSeq(t, 1, Len(t) - Len(GroupsOf(t).rest))

\* C12: for a current tag vM.m.p[-s] that ParseTagVersion accepts and a kind
\* of major, minor or patch, GetNextTag succeeds and the core of its tag is
\* v(M+1).0.0, vM.(m+1).0 or vM.m.(p+1) respectively, in decimal without
\* leading zeros.
C12_TransitionTable ==
    (/\ pc = "GetNextTag"
     /\ ParseTagVersion(args.currentTag).ok
     /\ args.bumpType \in ValidBumpTypes) =>
        /\ next.err = NoError
        /\ CoreText(next.tag) = TransitionTable(args.currentTag, args.bumpType)

\* The transition table on the current tags whose groups are below the
\* largest int.
C12_WithinIntRange ==
    (/\ pc = "GetNextTag"
     /\ ParseTagVersion(args.currentTag).ok
     /\ args.bumpType \in ValidBumpTypes
     /\ LET g == GroupsOf(args.currentTag)
        IN  \A d \in {g.major, g.minor, g.patch} :
                ~Atoi(d).err /\ Atoi(d).val # MaxInt) =>
        /\ next.err = NoError
        /\ CoreText(next.tag) = TransitionTable(args.currentTag, args.bumpType)

\* C13: the pre-release part of the tag GetNextTag returns is decided by the
\* suffix argument alone: nothing follows the core when the argument is
\* empty, and "-" followed by the argument follows it otherwise; the
\* current tag's pre-release is not carried over.
C13_SuffixFromArgument ==
    (pc = "GetNextTag" /\ next.err = NoError) =>
        GroupsOf(next.tag).rest =
            (IF args.suffix = "" THEN "" ELSE "-" \o args.suffix)

\* Reached: v0.1.0-prerelease bumped minor with an empty suffix gives v0.2.0.
C13_Witness ==
    /\ pc = "GetNextTag"
    /\ args = [currentTag |-> "v0.1.0-prerelease", bumpType |-> "minor", suffix |-> ""]
    /\ next.tag = "v0.2.0"

\* C14: a tag GetNextTag returns without error is accepted by
\* ParseTagVersion and parses back to the Major, Minor, Patch and Suffix of
\* the version the bump computed.
C14_RoundTrip ==
    (pc = "GetNextTag" /\ next.err = NoError) =>
        LET p == ParseTagVersion(next.tag)
        IN  /\ p.ok
            /\ p.version.Major = next.version.Major
            /\ p.version.Minor = next.version.Minor
            /\ p.version.Patch = next.version.Patch
            /\ p.version.Suffix = next.version.Suffix

\* The round trip on the suffix arguments made of characters of
\* [0-9A-Za-z-.], for a bump that does not wrap a group around.
C14_WithinSuffixClass ==
    (/\ pc = "GetNextTag"
     /\ next.err = NoError
     /\ \A n \in {next.version.Major, next.version.Minor, next.version.Patch} : n >= 0
     /\ \A i \in 1..Len(args.suffix) : Chars(args.suffix)[i] \in SuffixClass) =>
        LET p == ParseTagVersion(next.tag)
        IN  /\ p.ok
            /\ p.version.Major = next.version.Major
            /\ p.version.Minor = next.version.Minor
            /\ p.version.Patch = next.version.Patch
            /\ p.version.Suffix = next.version.Suffix

\* C16: when ParseTagVersion rejects the current tag, GetNextTag returns
\* the empty string and the invalid-current-tag error, whatever the kind
\* and the suffix, the kind being valid or not.
C16_RejectedCurrentTag ==
    (pc = "GetNextTag" /\ ~ParseTagVersion(args.currentTag).ok) =>
        /\ next.tag = ""
        /\ next.err = "invalid current tag format: " \o args.currentTag

\* Reached: a rejected current tag with an unrecognized kind and a suffix.
C16_Witness ==
    /\ pc = "GetNextTag"
    /\ args = [currentTag |-> "1.2.3", bumpType |-> "invalid", suffix |-> "rc1"]
    /\ next.err = "invalid current tag format: 1.2.3"

(***************************************************************************)
(* Specification of a run of the bump workflow: a repository (its tag      *)
(* names and its config) is drawn; one run of BumpService.Bump or of a     *)
(* bump command of the command line acts on it.                            *)
(***************************************************************************)

\* The repositories a run starts on: without tags, with a tag that is not a
\* semantic version only, and with a release and a pre-release tag in
\* several orders.
RunRepositories ==
    {<<>>, <<"release">>, <<"v1.2.3">>, <<"v1.3.0-rc1", "v1.2.3">>,
     <<"v1.2.3", "release">>, <<"release", "v1.2.3", "v1.3.0-rc1">>}

\* Configs: no defaultPush key, the key set to true, false and to a value
\* that is neither, and a repository whose config file is missing.
RunConfigs ==
    {[state |-> "ok", bump |-> b] :
        b \in {<<>>, "defaultPush" :> "true", "defaultPush" :> "false",
               "defaultPush" :> "yes"}}
        \cup {[state |-> "nofile", bump |-> <<>>]}

BumpOptions ==
    [BumpType : {"major", "minor", "patch", "invalid"}, Suffix : {"", "rc1"},
     UpdateFile : {"", "version.go"}, Push : BOOLEAN, DryRun : BOOLEAN]

\* The flags of a bump command; c.Bool("push") is false when --push is not
\* given.
CommandFlags ==
    {f \in [suffix : {"", "rc1"}, updateFile : {"", "version.go"},
            pushSet : BOOLEAN, push : BOOLEAN, dryRun : BOOLEAN] :
        f.push => f.pushSet}

CommandNames == {"patch", "minor", "major"}

ServiceFaults == {"none", "Tags", "CreateTag", "PushTags", "UpdateVersionFile"}

\* One call of BumpService.Bump on the repository.
CallBump ==
    /\ pc = "run"
    /\ \E o \in BumpOptions, f \in ServiceFaults :
         \E r \in {Bump(tagRefs, o, f)} :
             /\ opts' = o
             /\ fault' = f
             /\ snapshot' = tagRefs
             /\ result' = [res |-> r.res, err |-> r.err]
             /\ calls' = r.calls
             /\ output' = r.output
             /\ tagRefs' = r.refs
    /\ pc' = "Bump"
    /\ UNCHANGED <<info, lockVars, config, cli, pref, concurrent, latest, args, next, coreVars>>


(***************************************************************************)
(* Properties of a run of the workflow (SpecRun)                           *)
(***************************************************************************)

Ran == pc \in {"Bump", "command"}

\* The tags of the repository just before this run's CreateTag: those it
\* read and those other processes created since.
BeforeCreate == snapshot \o concurrent

\* The repository had no tag that ParseTagVersion accepts when the run
\* started.
NoSemverTags == \A i \in DOMAIN snapshot : ~ParseTagVersion(snapshot[i]).ok

HasPrefix(s, p) == Len(s) >= Len(p) /\ SubSeq(s, 1, Len(p)) = p

Called(call) == \E i \in DOMAIN calls : calls[i] = call

\* C15: a run whose kind is not major, minor or patch fails with the
\* unknown-bump-type error, whatever the tags of the repository, and creates
\* no tag (no operation of the repository failing).
C15_UnknownKindNeverTags ==
    (Ran /\ fault = "none" /\ opts.BumpType \notin ValidBumpTypes) =>
        /\ result.err = "failed to determine next tag: unknown bump type: " \o opts.BumpType
        /\ calls = <<>>
        /\ tagRefs = BeforeCreate

\* The same on the repositories that have a semantic-version tag.
C15_WithSemverTags ==
    (Ran /\ fault = "none" /\ opts.BumpType \notin ValidBumpTypes /\ ~NoSemverTags) =>
        /\ result.err = "failed to determine next tag: unknown bump type: " \o opts.BumpType
        /\ calls = <<>>
        /\ tagRefs = BeforeCreate

\* C17: when the repository has no tag ParseTagVersion accepts, a run that
\* reads the tags prints the no-tags-found line of its mode first and the
\* tag it creates (normal mode) or previews (dry run) is exactly v0.1.0;
\* the tag is added unless CreateTag fails, as it does when another process
\* created v0.1.0 after this run read the tags.
C17_StartsAtV010 ==
    (Ran /\ fault \notin {"Tags", "findGitRoot", "PlainOpen"} /\ NoSemverTags) =>
        IF opts.DryRun
        THEN /\ Len(output) = 2
             /\ output[1] = "No tags found, would start at v0.1.0\n"
             /\ HasPrefix(output[2], "Would create tag: v0.1.0\n")
             /\ calls = <<>>
             /\ pc = "Bump" => result.res.NextTag = "v0.1.0"
        ELSE /\ Len(output) >= 1
             /\ output[1] = "No tags found, starting at v0.1.0\n"
             /\ Len(calls) >= 1
             /\ calls[1] = <<"CreateTag", "v0.1.0">>
             /\ \A i \in DOMAIN calls : calls[i][1] = "CreateTag" => i = 1
             /\ tagRefs = IF fault = "CreateTag" \/ concurrent = <<"v0.1.0">>
                          THEN BeforeCreate
                          ELSE Append(BeforeCreate, "v0.1.0")
             /\ (pc = "Bump" /\ result.err = NoError) => result.res.NextTag = "v0.1.0"

\* Reached: a bump command on a repository whose only tag is "release"
\* created v0.1.0 and announced it.
C17_Witness ==
    /\ pc = "command"
    /\ snapshot = <<"release">>
    /\ ~opts.DryRun
    /\ opts.Suffix = "rc1"
    /\ result.err = NoError
    /\ tagRefs = <<"release", "v0.1.0">>
    /\ output[1] = "No tags found, starting at v0.1.0\n"

\* C18: a dry run calls neither CreateTag nor PushTags nor the version-file
\* update and adds no tag to the repository; a Bump with DryRun that succeeds
\* returns Pushed = FALSE, FileUpdated = FALSE, WouldPush = the Push option,
\* WouldUpdate = (UpdateFile is non-empty), and as NextTag the tag a Bump
\* without DryRun creates on the same tags with the same options.
C18_DryRunChangesNothing ==
    (Ran /\ opts.DryRun) =>
        /\ calls = <<>>
        /\ tagRefs = BeforeCreate
        /\ (pc = "Bump" /\ result.err = NoError) =>
              /\ ~result.res.Pushed
              /\ ~result.res.FileUpdated
              /\ result.res.WouldPush = opts.Push
              /\ result.res.WouldUpdate = (opts.UpdateFile # "")
              /\ LET real == Bump(snapshot, [opts EXCEPT !.DryRun = FALSE], "none")
                 IN  /\ real.err = NoError
                     /\ real.calls[1] = <<"CreateTag", result.res.NextTag>>
                     /\ real.res.NextTag = result.res.NextTag

\* Reached: a dry-run Bump with Push and UpdateFile on a repository with
\* semantic-version tags previewed its tag.
C18_Witness ==
    /\ pc = "Bump"
    /\ opts.DryRun /\ opts.Push /\ opts.UpdateFile # "" /\ opts.Suffix = "rc1"
    /\ result.err = NoError
    /\ result.res.PreviousTag = "v1.3.0-rc1"
    /\ result.res.NextTag = "v1.3.1-rc1"
    /\ Len(snapshot) >= 2

\* The push decision the precedence prescribes: the value of --push when it
\* is given, else the configured defaultPush when the config is readable
\* and the key is set to true or false, else no push.
PushExpected ==
    IF cli.pushSet THEN cli.push
    ELSE /\ config.state = "ok"
         /\ "defaultPush" \in DOMAIN config.bump
         /\ config.bump["defaultPush"] = "true"

Contains(s, p) == \E k \in 1..Len(s) : HasPrefix(SubSeq(s, k, Len(s)), p)

\* C19: a bump command that created its tag called PushTags exactly when
\* the precedence prescribes a push, and a dry run announces a push exactly
\* then.
C19_PushPrecedence ==
    /\ (pc = "command" /\ ~opts.DryRun /\ tagRefs # BeforeCreate) =>
           (Called(<<"PushTags">>) <=> PushExpected)
    /\ (pc = "command" /\ opts.DryRun /\ result.err = NoError) =>
           (Contains(output[Len(output)], "Would push tag to remote\n") <=> PushExpected)

\* Reached: a bump command run with --push=false on a repository whose
\* config sets defaultPush to true created its tag and did not push.
C19_Witness ==
    /\ pc = "command"
    /\ cli.pushSet /\ ~cli.push
    /\ config = [state |-> "ok", bump |-> "defaultPush" :> "true"]
    /\ result.err = NoError
    /\ ~opts.DryRun
    /\ calls = <<<<"CreateTag", "v1.2.4">>>>

(***************************************************************************)
(* Specification of the push preference: a config is drawn;                *)
(* SetDefaultPushPreference and GetDefaultPushPreference are called on it  *)
(* in any order.                                                           *)
(***************************************************************************)

\* Largest number of calls of SetDefaultPushPreference in a behaviour.
MaxSets == 3

\* Configs that pass the checks, with no defaultPush key or one of several
\* values, and one config for each check that fails.
ConfigStates ==
    {[state |-> "ok", bump |-> b] :
        b \in {<<>>, "defaultPush" :> "true", "defaultPush" :> "false",
               "defaultPush" :> "yes", "defaultPush" :> ""}}
        \cup {[state |-> st, bump |-> <<>>] :
                 st \in {"norepo", "nofile", "noaccess", "malformed"}}

InitConfig ==
    /\ pc = "config"
    /\ info = NoInfo
    /\ config \in ConfigStates
    /\ cli = NoFlags /\ opts = NoOptions /\ result = NoOutcome
    /\ calls = <<>> /\ output = <<>> /\ pref = NoPreference /\ fault = "none"
    /\ snapshot = <<>> /\ concurrent = <<>>
    /\ CoreIdle /\ TagIdle /\ LockIdle

\* One call of SetDefaultPushPreference; calls records its argument and the
\* error it returned.
CallSetDefaultPushPreference ==
    /\ Len(calls) < MaxSets
    /\ \E value \in BOOLEAN, f \in {"none", "SaveTo", "Rename"} :
         \E r \in {SetDefaultPushPreference(config, value, f)} :
             /\ config' = r.config
             /\ calls' = Append(calls, <<"SetDefaultPushPreference", value, r.err>>)
             /\ fault' = f
    /\ pc' = "set"
    /\ UNCHANGED <<info, lockVars, cli, opts, result, output, pref, snapshot, concurrent,
                   coreVars, tagVars>>

CallGetDefaultPushPreference ==
    /\ pref' = GetDefaultPushPreference(config)
    /\ pc' = "got"
    /\ UNCHANGED <<info, lockVars, config, cli, opts, result, calls, output, fault, snapshot,
                   concurrent, coreVars, tagVars>>

NextConfig == CallSetDefaultPushPreference \/ CallGetDefaultPushPreference

SpecConfig == InitConfig /\ [][NextConfig]_vars

(***************************************************************************)
(* Properties of the push preference (SpecConfig)                          *)
(***************************************************************************)

\* The positions of calls at which SetDefaultPushPreference succeeded.
SuccessfulSets == {i \in DOMAIN calls : calls[i][3] = NoError}

\* C20: GetDefaultPushPreference called after a successful
\* SetDefaultPushPreference returns the value of the last successful set
\* with isSet = TRUE and no error, for true and for false; on a config that
\* passes the checks and has no defaultPush key it returns
\* (FALSE, isSet = FALSE, no error).
C20_SetThenGet ==
    pc = "got" =>
        /\ SuccessfulSets # {} =>
              LET last == CHOOSE i \in SuccessfulSets : \A j \in SuccessfulSets : j <= i
              IN  pref = [val |-> calls[last][2], isSet |-> TRUE, err |-> NoError]
        /\ (config.state = "ok" /\ "defaultPush" \notin DOMAIN config.bump) =>
              pref = [val |-> FALSE, isSet |-> FALSE, err |-> NoError]

\* Reached: true was set, then false, then a set failed, and the preference
\* read afterwards is an explicit false.
C20_Witness ==
    /\ pc = "got"
    /\ Len(calls) = 3
    /\ calls[1] = <<"SetDefaultPushPreference", TRUE, NoError>>
    /\ calls[2] = <<"SetDefaultPushPreference", FALSE, NoError>>
    /\ calls[3][2] = TRUE /\ calls[3][3] # NoError
    /\ pref = [val |-> FALSE, isSet |-> TRUE, err |-> NoError]

(***************************************************************************)
(* The git lock: acquireGitLock, GitLock.Release, createTagWithLock and    *)
(* pushTagWithLock, run by several callers on one repository               *)
(***************************************************************************)

\* The attempts of the loop of acquireGitLock (maxAttempts; 30 in the code,
\* kept small here so that every interleaving of the callers is explored).
MaxAttempts == 2

\* The calls of Release one caller makes on its lock.
MaxReleases == 2

\* The callers: a1 and a2 are goroutines of process A, b1 runs in process B.
Callers == {"a1", "a2", "b1"}

Processes == {"A", "B"}

\* Two runs of the bump command, each its own process.
Invocations == {"p1", "p2"}

\* The process a caller runs in; a run of the command is a process of its
\* own.
ProcessOf(c) == IF c \in {"a1", "a2"} THEN "A" ELSE IF c = "b1" THEN "B" ELSE c

\* A caller before it calls createTagWithLock / pushTagWithLock.
\*   at       position in the code
\*   i        the loop variable of acquireGitLock
\*   lock     the *GitLock it got: "nil", or the value of its acquired field
\*   err      the error acquireGitLock returned
\*   seen     what its OpenFile and Stat calls found: OpenFile no file
\*            ("absent") or an error other than the existence of the file
\*            ("error"), Stat a file younger than five minutes ("fresh") or
\*            a stale file or no file any more ("not fresh")
\*   mutex    it has locked the repository's mutex and not unlocked it
\*   unlocks  the calls of Unlock it made on the repository's mutex
\*   cmd      the outcome of its git command
\*   releases the calls of Release it made
IdleCaller ==
    [at |-> "idle", i |-> 0, lock |-> "nil", err |-> NoError, seen |-> {},
     mutex |-> FALSE, unlocks |-> 0, cmd |-> "none", releases |-> 0]

LockFileOf(c) == [exists |-> TRUE, by |-> c, stale |-> FALSE]

\* sync.Mutex.Unlock: unlocking an unlocked mutex is a fatal error.
Unlock(m) == IF m = "locked" THEN "unlocked" ELSE "fatal"

\* acquireGitLock returns (nil, err): it unlocks the mutex when it holds it.
Fail(r, message) ==
    [r EXCEPT !.at = "failed", !.lock = "nil", !.err = message,
              !.mutex = FALSE,
              !.unlocks = IF r.mutex THEN @ + 1 ELSE @]

\* The caller may call acquireGitLock: any caller of the lock model; a run
\* of the command once CreateTag or PushTag has found the repository root.
MayAcquire(c) ==
    \/ pc = "lock"
    \/ pc = "race" /\ invocation[c].at = "createTagWithLock"
    \/ pc \in {"createTagWithLock", "pushTagWithLock"}

\* acquireGitLock, up to the wait for the repository's mutex: the path is
\* validated (validateRepositoryPath), made absolute (filepath.Abs) and the
\* mutex of the path is looked up or created in gitLocks.
CallAcquireGitLock(c) ==
    /\ MayAcquire(c)
    /\ caller[c].at = "idle"
    /\ \E path \in {"valid", "invalid", "unresolved"} :
          caller' = [caller EXCEPT ![c] =
                        CASE path = "valid" -> [@ EXCEPT !.at = "Lock"]
                          [] path = "invalid" -> Fail(@, "invalid repository for git lock")
                          [] path = "unresolved" ->
                                Fail(@, "failed to resolve repository path")]
    /\ UNCHANGED <<info, pc, lockFile, repoMutex, invocation, coreVars, tagVars, runVars>>

\* The steps of acquireGitLock and Release are those of the lock model, of
\* the concurrent runs of the command, and of the run of a command inside
\* createTagWithLock and pushTagWithLock.
LockModel == pc \in {"lock", "race", "createTagWithLock", "pushTagWithLock"}

\* repoMutex.Lock(): waits until the mutex of this process is unlocked.
LockRepoMutex(c) ==
    /\ LockModel
    /\ caller[c].at = "Lock"
    /\ repoMutex[ProcessOf(c)] = "unlocked"
    /\ repoMutex' = [repoMutex EXCEPT ![ProcessOf(c)] = "locked"]
    /\ caller' = [caller EXCEPT ![c].at = "OpenFile", ![c].i = 0, ![c].mutex = TRUE]
    /\ UNCHANGED <<info, pc, lockFile, invocation, coreVars, tagVars, runVars>>

\* OpenFile without the limit of the loop: the attempts never end.
OpenFileUnbounded(c) ==
    /\ LockModel
    /\ caller[c].at = "OpenFile"
    /\ \/ /\ ~lockFile.exists
          /\ lockFile' = LockFileOf(c)
          /\ caller' = [caller EXCEPT ![c].at = "holding", ![c].lock = "acquired",
                                      ![c].seen = @ \cup {"absent"}]
          /\ UNCHANGED repoMutex
       \/ /\ lockFile.exists
          /\ caller' = [caller EXCEPT ![c].at = "Stat"]
          /\ UNCHANGED <<info, lockFile, repoMutex>>
       \/ /\ caller' = [caller EXCEPT ![c] =
                           Fail([@ EXCEPT !.seen = @ \cup {"error"}],
                                "failed to create lock file")]
          /\ repoMutex' = [repoMutex EXCEPT ![ProcessOf(c)] = Unlock(@)]
          /\ UNCHANGED lockFile
    /\ UNCHANGED <<info, pc, invocation, coreVars, tagVars, runVars>>

\* One evaluation of the loop head and of os.OpenFile(O_CREATE|O_EXCL): after
\* MaxAttempts attempts the loop ends without a handle and the call fails;
\* otherwise the file is created, or exists already, or cannot be created
\* for another reason.
OpenFile(c) ==
    /\ LockModel
    /\ caller[c].at = "OpenFile"
    /\ \/ /\ caller[c].i >= MaxAttempts
          /\ caller' = [caller EXCEPT ![c] =
                           Fail(@, "failed to acquire git lock after attempts")]
          /\ repoMutex' = [repoMutex EXCEPT ![ProcessOf(c)] = Unlock(@)]
          /\ UNCHANGED lockFile
       \/ /\ caller[c].i < MaxAttempts
          /\ ~lockFile.exists
          /\ lockFile' = LockFileOf(c)
          /\ caller' = [caller EXCEPT ![c].at = "holding", ![c].lock = "acquired",
                                      ![c].seen = @ \cup {"absent"}]
          /\ UNCHANGED repoMutex
       \/ /\ caller[c].i < MaxAttempts
          /\ lockFile.exists
          /\ caller' = [caller EXCEPT ![c].at = "Stat"]
          /\ UNCHANGED <<info, lockFile, repoMutex>>
       \/ /\ caller[c].i < MaxAttempts
          /\ caller' = [caller EXCEPT ![c] =
                           Fail([@ EXCEPT !.seen = @ \cup {"error"}],
                                "failed to create lock file")]
          /\ repoMutex' = [repoMutex EXCEPT ![ProcessOf(c)] = Unlock(@)]
          /\ UNCHANGED lockFile
    /\ UNCHANGED <<info, pc, invocation, coreVars, tagVars, runVars>>

\* os.Stat of the lock file after OpenFile found it: a file older than five
\* minutes is stale and will be removed; otherwise the caller sleeps and
\* tries again.
StatLockFile(c) ==
    /\ LockModel
    /\ caller[c].at = "Stat"
    /\ caller' = [caller EXCEPT ![c] =
          IF ~lockFile.exists
          THEN [@ EXCEPT !.at = "OpenFile", !.i = @ + 1, !.seen = @ \cup {"not fresh"}]
          ELSE IF lockFile.stale
          THEN [@ EXCEPT !.at = "Remove", !.seen = @ \cup {"not fresh"}]
          ELSE [@ EXCEPT !.at = "OpenFile", !.i = @ + 1, !.seen = @ \cup {"fresh"}]]
    /\ UNCHANGED <<info, pc, lockFile, repoMutex, invocation, coreVars, tagVars, runVars>>

\* os.Remove of a lock file found stale, then continue: the next attempt
\* follows without a sleep.  The file at the path is removed, whoever
\* created it; when os.Remove fails the error is only logged and the file
\* stays.
RemoveStaleLock(c) ==
    /\ LockModel
    /\ caller[c].at = "Remove"
    /\ \/ lockFile' = NoFile
       \/ lockFile.exists /\ UNCHANGED lockFile
    /\ caller' = [caller EXCEPT ![c].at = "OpenFile", ![c].i = @ + 1]
    /\ UNCHANGED <<info, pc, repoMutex, invocation, coreVars, tagVars, runVars>>

\* createTag / pushTag under the lock: the git command succeeds or fails;
\* the deferred Release follows in both cases.
RunGitCommand(c) ==
    /\ pc = "lock"
    /\ caller[c].at = "holding"
    /\ \E outcome \in {"ok", "failed"} :
          caller' = [caller EXCEPT ![c].at = "Release", ![c].cmd = outcome]
    /\ UNCHANGED <<info, pc, lockFile, repoMutex, invocation, coreVars, tagVars, runVars>>

\* GitLock.Release with acquired true, up to os.Remove: the file at the
\* path of the lock file is removed, whoever created it; when os.Remove
\* fails the error is only logged and the file stays.  The mutex is still
\* locked.
Release(c) ==
    /\ LockModel
    /\ caller[c].at \in {"Release", "done"}
    /\ caller[c].lock = "acquired"
    /\ caller[c].at = "done" => caller[c].releases < MaxReleases
    /\ \/ lockFile' = NoFile
       \/ lockFile.exists /\ UNCHANGED lockFile
    /\ caller' = [caller EXCEPT ![c].at = "Unlock", ![c].releases = @ + 1]
    /\ UNCHANGED <<info, pc, repoMutex, invocation, coreVars, tagVars, runVars>>

\* GitLock.Release with acquired false: nothing happens and nil is
\* returned.  The caller calls Release again after the deferred call, or it
\* calls Release on a GitLock it made itself and never acquired
\* (&GitLock{acquired: false, mutex: nil}, TestGitLockReleaseNotAcquired).
ReleaseNotAcquired(c) ==
    /\ pc = "lock"
    /\ caller[c].releases < MaxReleases
    /\ \/ /\ caller[c].at = "done"
          /\ caller[c].lock = "unacquired"
          /\ caller' = [caller EXCEPT ![c].releases = @ + 1]
       \/ /\ caller[c].at = "idle"
          /\ caller' = [caller EXCEPT ![c].at = "not acquired",
                                      ![c].lock = "unacquired",
                                      ![c].releases = @ + 1]
    /\ UNCHANGED <<info, pc, lockFile, repoMutex, invocation, coreVars, tagVars, runVars>>

\* The goroutines of a process that have returned from their calls.
Finished == {"failed", "done", "not acquired", "panic"}

\* The process ends at once: its goroutines that have not finished stop
\* where they are, no deferred call of theirs runs, its memory (their
\* variables, the mutex) is gone and the files it wrote stay.
EndProcess(p) ==
    [c \in Callers |->
        IF ProcessOf(c) = p /\ caller[c].at \notin Finished
        THEN [IdleCaller EXCEPT !.at = "dead"]
        ELSE caller[c]]

\* GitLock.Release called through the nil *GitLock that acquireGitLock
\* returned with its error: lock.acquired dereferences nil, the goroutine
\* panics and the process ends.
ReleaseNil(c) ==
    /\ pc = "lock"
    /\ caller[c].at = "failed"
    /\ caller[c].lock = "nil"
    /\ caller' = [EndProcess(ProcessOf(c)) EXCEPT ![c].at = "panic", ![c].releases = @ + 1]
    /\ repoMutex' = [repoMutex EXCEPT ![ProcessOf(c)] = "unlocked"]
    /\ UNCHANGED <<info, pc, lockFile, invocation, coreVars, tagVars, runVars>>

\* The end of Release that leaves acquired true: a second Release removes
\* and unlocks again.
ReleaseUnlockKeepsAcquired(c) ==
    /\ LockModel
    /\ caller[c].at = "Unlock"
    /\ repoMutex' = [repoMutex EXCEPT ![ProcessOf(c)] = Unlock(@)]
    /\ caller' = [caller EXCEPT ![c].at = "done", ![c].mutex = FALSE,
                                ![c].unlocks = @ + 1, ![c].i = 0, ![c].seen = {}]
    /\ UNCHANGED <<info, pc, lockFile, invocation, coreVars, tagVars, runVars>>

\* GitLock.Release after os.Remove: the mutex is unlocked and acquired
\* becomes false (the GitLock belongs to this caller alone, so no other
\* caller reads acquired in between).  What the caller's acquireGitLock
\* counted and found is forgotten.
ReleaseUnlock(c) ==
    /\ LockModel
    /\ caller[c].at = "Unlock"
    /\ repoMutex' = [repoMutex EXCEPT ![ProcessOf(c)] = Unlock(@)]
    /\ caller' = [caller EXCEPT ![c].at = "done", ![c].lock = "unacquired",
                                ![c].mutex = FALSE, ![c].unlocks = @ + 1,
                                ![c].i = 0, ![c].seen = {}]
    /\ UNCHANGED <<info, pc, lockFile, invocation, coreVars, tagVars, runVars>>

\* Five minutes pass since the lock file was written.
LockFileAges ==
    /\ LockModel
    /\ lockFile.exists /\ ~lockFile.stale
    /\ lockFile' = [lockFile EXCEPT !.stale = TRUE]
    /\ UNCHANGED <<info, pc, repoMutex, caller, invocation, coreVars, tagVars, runVars>>

\* The operating system terminates a process while one of its goroutines
\* holds the lock: its goroutines that have not finished stop where they
\* are, no deferred call runs, its memory (the mutex) is gone and the
\* files it wrote stay.
Terminate(p) ==
    /\ pc = "lock"
    /\ \E c \in Callers :
          ProcessOf(c) = p /\ caller[c].at \in {"holding", "Release", "Unlock"}
    /\ caller' = EndProcess(p)
    /\ repoMutex' = [repoMutex EXCEPT ![p] = "unlocked"]
    /\ UNCHANGED <<info, pc, lockFile, invocation, coreVars, tagVars, runVars>>

InitLock ==
    /\ pc = "lock"
    /\ info = NoInfo
    /\ lockFile \in {NoFile, [exists |-> TRUE, by |-> "", stale |-> FALSE],
                     [exists |-> TRUE, by |-> "", stale |-> TRUE]}
    /\ repoMutex = [p \in Processes |-> "unlocked"]
    /\ caller = [c \in Callers |-> IdleCaller]
    /\ invocation = <<>>
    /\ CoreIdle /\ TagIdle /\ RunIdle

NextLock ==
    \/ \E c \in Callers : CallAcquireGitLock(c)
    \/ \E c \in Callers : LockRepoMutex(c)
    \/ \E c \in Callers : OpenFile(c)
    \/ \E c \in Callers : StatLockFile(c)
    \/ \E c \in Callers : RemoveStaleLock(c)
    \/ \E c \in Callers : RunGitCommand(c)
    \/ \E c \in Callers : Release(c)
    \/ \E c \in Callers : ReleaseUnlock(c)
    \/ \E c \in Callers : ReleaseNotAcquired(c)
    \/ \E c \in Callers : ReleaseNil(c)
    \/ LockFileAges
    \/ \E p \in Processes : Terminate(p)

SpecLock == InitLock /\ [][NextLock]_vars

\* The steps a caller takes once it is inside acquireGitLock, holds the
\* lock or is inside Release.
StepOf(c) ==
    \/ LockRepoMutex(c)
    \/ OpenFile(c)
    \/ StatLockFile(c)
    \/ RemoveStaleLock(c)
    \/ RunGitCommand(c)
    \/ Release(c)
    \/ ReleaseUnlock(c)

\* The goroutines of process A, whose steps are scheduled fairly.
FairCallers == {"a1", "a2"}

\* What any other process does to the lock file, at any time: its
\* acquireGitLock creates the file when there is none; its Release and its
\* removal of a stale file remove the file at the path, whoever created it.
OtherProcessWritesLockFile ==
    /\ pc = "lock"
    /\ \/ ~lockFile.exists /\ lockFile' = [exists |-> TRUE, by |-> "", stale |-> FALSE]
       \/ lockFile.exists /\ lockFile' = NoFile
    /\ UNCHANGED <<info, pc, repoMutex, caller, invocation, coreVars, tagVars, runVars>>

\* Two goroutines of one process, each calling acquireGitLock at most once
\* and Release once, as createTagWithLock and pushTagWithLock do, while
\* other processes create and remove the lock file, the file ages and the
\* process may be terminated.
NextLockFair ==
    \/ \E c \in FairCallers : CallAcquireGitLock(c)
    \/ \E c \in FairCallers : LockRepoMutex(c)
    \/ \E c \in FairCallers : OpenFile(c)
    \/ \E c \in FairCallers : StatLockFile(c)
    \/ \E c \in FairCallers : RemoveStaleLock(c)
    \/ \E c \in FairCallers : RunGitCommand(c)
    \/ \E c \in FairCallers : Release(c)
    \/ \E c \in FairCallers : ReleaseUnlock(c)
    \/ OtherProcessWritesLockFile
    \/ LockFileAges
    \/ \E p \in Processes : Terminate(p)

\* Fairness: the Go scheduler runs every goroutine that can run, the git
\* command of a holder ends, and the holder's deferred Release follows.
\* Nothing is assumed of the other processes, of the ageing of the file or
\* of the termination of the process.
SpecLockFair ==
    InitLock /\ [][NextLockFair]_vars /\ \A c \in FairCallers : WF_vars(StepOf(c))

(***************************************************************************)
(* One run of the workflow on a repository other processes use too:        *)
(* BumpService.Bump, TagAndPush, or a bump command of the command line     *)
(* followed step by step through bumpVersion, CreateTag, PushTag and the   *)
(* git lock                                                                *)
(***************************************************************************)

\* The caller of acquireGitLock in the run of a bump command.
CommandRun == "cmd"

\* Names of the tags other processes create while the command runs: the
\* first version and the next major version.
ConcurrentNames == {"v0.1.0", "v2.0.0"}

\* The tags other processes create between the read of the tags and git tag.
MaxConcurrent == 1

\* A lock file written by a process other than the run.
OtherLockFile == [exists |-> TRUE, by |-> "", stale |-> FALSE]

InitRun ==
    /\ pc = "run"
    /\ info = NoInfo
    /\ tagRefs \in RunRepositories
    /\ config \in RunConfigs
    /\ snapshot = <<>> /\ concurrent = <<>>
    /\ latest = NoTag /\ args = NoArgs /\ next = NoNext
    /\ cli = NoFlags /\ opts = NoOptions /\ result = NoOutcome
    /\ calls = <<>> /\ output = <<>> /\ pref = NoPreference /\ fault = "none"
    /\ lockFile = NoFile
    /\ repoMutex = [p \in {CommandRun} |-> "unlocked"]
    /\ caller = [c \in {CommandRun} |-> IdleCaller]
    /\ invocation = <<>>
    /\ CoreIdle

\* bumpVersion returns err: the run of the command is over.
ReturnError(message, failed) ==
    /\ result' = [res |-> NoResult, err |-> message]
    /\ fault' = failed
    /\ pc' = "command"

\* The Action of a bump command and bumpVersion up to the call of
\* CreateTag: the push decision, findGitRoot, git.PlainOpen and repo.Tags
\* (one of which may fail), GetLatestTag, calculateNextVersion, the
\* no-tags-found line and, in a dry run, the preview and the return.  No
\* lock is taken.
RunCommand ==
    /\ pc = "run"
    /\ \E name \in CommandNames, flags \in CommandFlags :
         /\ cli' = flags
         /\ opts' = [BumpType |-> name, Suffix |-> flags.suffix,
                     UpdateFile |-> flags.updateFile,
                     Push |-> doPush(flags, config), DryRun |-> flags.dryRun]
         /\ snapshot' = tagRefs
         /\ \/ /\ ReturnError("failed to find git root: " \o OperationError, "findGitRoot")
               /\ UNCHANGED <<output, latest, next>>
            \/ /\ ReturnError("failed to open git repo: " \o RepositoryNotExists, "PlainOpen")
               /\ UNCHANGED <<output, latest, next>>
            \/ /\ ReturnError("failed to fetch tags: " \o OperationError, "Tags")
               /\ UNCHANGED <<output, latest, next>>
            \/ \E l \in {GetLatestTag(tagRefs)} :
                 \E n \in {calculateNextVersion(l.tag, name, flags.suffix)} :
                   /\ latest' = l
                   /\ next' = n
                   /\ IF l.err # NoError
                      THEN /\ ReturnError("failed to determine latest tag: " \o l.err, "none")
                           /\ UNCHANGED output
                      ELSE IF n.err # NoError
                      THEN /\ ReturnError("failed to determine next tag: " \o n.err, "none")
                           /\ UNCHANGED output
                      ELSE IF flags.dryRun
                      THEN /\ output' = NoTagsNotice(l.tag, TRUE)
                                 \o <<formatDryRunMessage(n.tag, doPush(flags, config),
                                                          flags.updateFile)>>
                           /\ pc' = "command"
                           /\ UNCHANGED <<result, fault>>
                      ELSE /\ output' = NoTagsNotice(l.tag, FALSE)
                           /\ pc' = "CreateTag"
                           /\ UNCHANGED <<result, fault>>
    /\ UNCHANGED <<info, lockVars, config, pref, calls, concurrent, tagRefs, args, coreVars>>

\* bump.CreateTag(nextTag) up to createTagWithLock: findGitRepoRoot finds
\* the repository root or fails.
CallCreateTag ==
    /\ pc = "CreateTag"
    /\ calls' = Append(calls, <<"CreateTag", next.tag>>)
    /\ \/ /\ pc' = "createTagWithLock"
          /\ UNCHANGED <<result, fault>>
       \/ ReturnError("failed to create tag: failed to find git repository", "CreateTag")
    /\ UNCHANGED <<info, lockVars, config, cli, opts, output, pref,
                   snapshot, concurrent, coreVars, tagVars>>

\* createTag of the run, under the lock: git tag exits with an error,
\* always when the repository has the tag already and possibly otherwise,
\* and adds no tag; or it creates the tag.  The deferred Release follows.
RunGitTag ==
    /\ pc = "createTagWithLock"
    /\ caller[CommandRun].at = "holding"
    /\ \/ /\ caller' = [caller EXCEPT ![CommandRun].at = "Release",
                                      ![CommandRun].cmd = "failed"]
          /\ UNCHANGED tagRefs
       \/ /\ ~CreateTagFails(tagRefs, next.tag, "none")
          /\ caller' = [caller EXCEPT ![CommandRun].at = "Release", ![CommandRun].cmd = "ok"]
          /\ tagRefs' = Append(tagRefs, next.tag)
    /\ UNCHANGED <<info, pc, lockFile, repoMutex, invocation, latest, args, next, coreVars,
                   runVars>>

\* bumpVersion after the last of CreateTag and PushTag: the line that
\* announces the tag is printed, and the version-file update follows when a
\* file is given.
AnnounceTag ==
    /\ output' = Append(output, formatBumpMessage(next.tag, opts.Push) \o "\n")
    /\ pc' = IF opts.UpdateFile # "" THEN "updateVersionFile" ELSE "command"
    /\ UNCHANGED <<result, fault>>

\* createTagWithLock returns to CreateTag and CreateTag to bumpVersion,
\* with the error of acquireGitLock or, after the deferred Release, with
\* the outcome of git tag.  bumpVersion returns on an error and goes on to
\* PushTag, when a push is asked for, otherwise.  The variables of the call
\* are gone.
ReturnFromCreateTagToBumpVersion ==
    /\ pc = "createTagWithLock"
    /\ \/ /\ caller[CommandRun].at = "failed"
          /\ ReturnError("failed to create tag: failed to acquire git lock: "
                             \o caller[CommandRun].err, "CreateTag")
          /\ UNCHANGED output
       \/ /\ caller[CommandRun].at = "done" /\ caller[CommandRun].cmd = "failed"
          /\ ReturnError("failed to create tag: failed to create tag: " \o OperationError,
                         "CreateTag")
          /\ UNCHANGED output
       \/ /\ caller[CommandRun].at = "done" /\ caller[CommandRun].cmd = "ok"
          /\ opts.Push
          /\ pc' = "PushTag"
          /\ UNCHANGED <<result, fault, output>>
       \/ /\ caller[CommandRun].at = "done" /\ caller[CommandRun].cmd = "ok"
          /\ ~opts.Push
          /\ AnnounceTag
    /\ caller' = [caller EXCEPT ![CommandRun] = IdleCaller]
    /\ UNCHANGED <<info, lockFile, repoMutex, invocation, config, cli, opts, calls, pref,
                   snapshot, concurrent, coreVars, tagVars>>

\* bump.PushTag() up to pushTagWithLock: findGitRepoRoot finds the
\* repository root or fails.
CallPushTag ==
    /\ pc = "PushTag"
    /\ calls' = Append(calls, <<"PushTags">>)
    /\ \/ /\ pc' = "pushTagWithLock"
          /\ UNCHANGED <<result, fault>>
       \/ ReturnError("failed to push tag: failed to find git repository", "PushTags")
    /\ UNCHANGED <<info, lockVars, config, cli, opts, output, pref,
                   snapshot, concurrent, coreVars, tagVars>>

\* pushTag of the run, under the lock: git push --tags succeeds or fails.
\* The deferred Release follows.
RunGitPush ==
    /\ pc = "pushTagWithLock"
    /\ caller[CommandRun].at = "holding"
    /\ \E outcome \in {"ok", "failed"} :
          caller' = [caller EXCEPT ![CommandRun].at = "Release", ![CommandRun].cmd = outcome]
    /\ UNCHANGED <<info, pc, lockFile, repoMutex, invocation, coreVars, tagVars, runVars>>

\* pushTagWithLock returns to PushTag and PushTag to bumpVersion.
ReturnFromPushTagToBumpVersion ==
    /\ pc = "pushTagWithLock"
    /\ \/ /\ caller[CommandRun].at = "failed"
          /\ ReturnError("failed to push tag: failed to acquire git lock: "
                             \o caller[CommandRun].err, "PushTags")
          /\ UNCHANGED output
       \/ /\ caller[CommandRun].at = "done" /\ caller[CommandRun].cmd = "failed"
          /\ ReturnError("failed to push tag: failed to push tag: " \o OperationError,
                         "PushTags")
          /\ UNCHANGED output
       \/ /\ caller[CommandRun].at = "done" /\ caller[CommandRun].cmd = "ok"
          /\ AnnounceTag
    /\ caller' = [caller EXCEPT ![CommandRun] = IdleCaller]
    /\ UNCHANGED <<info, lockFile, repoMutex, invocation, config, cli, opts, calls, pref,
                   snapshot, concurrent, coreVars, tagVars>>

\* updateVersionFile(updateFile, nextTag) and the return of bumpVersion.
CallUpdateVersionFile ==
    /\ pc = "updateVersionFile"
    /\ calls' = Append(calls, <<"UpdateVersionFile", opts.UpdateFile, next.tag>>)
    /\ \/ /\ pc' = "command"
          /\ UNCHANGED <<result, fault>>
       \/ ReturnError("failed to update file: " \o OperationError, "UpdateVersionFile")
    /\ UNCHANGED <<info, lockVars, config, cli, opts, output, pref, snapshot, concurrent,
                   coreVars, tagVars>>

\* Tags given to TagAndPush: one the generated repositories may have and
\* one they do not have.
TagAndPushTags == {"v1.2.3", "v1.2.4"}

\* TagAndPush(repoPath, tag), first command: git tag, run without the git
\* lock, exits with an error (always when the repository has the tag) and
\* TagAndPush returns it, or creates the tag.
TagAndPush ==
    /\ pc = "run"
    /\ snapshot' = tagRefs
    /\ \E t \in TagAndPushTags :
          \/ /\ result' = [res |-> NoResult,
                           err |-> "failed to create tag: " \o OperationError]
             /\ pc' = "returned"
             /\ UNCHANGED tagRefs
          \/ /\ ~CreateTagFails(tagRefs, t, "none")
             /\ tagRefs' = Append(tagRefs, t)
             /\ pc' = "TagAndPush"
             /\ UNCHANGED result
    /\ UNCHANGED <<info, lockVars, config, cli, opts, calls, output, pref, fault, concurrent,
                   latest, args, next, coreVars>>

\* TagAndPush, second command: git push --tags succeeds or fails.
TagAndPushGitPush ==
    /\ pc = "TagAndPush"
    /\ \/ result' = [res |-> NoResult, err |-> NoError]
       \/ result' = [res |-> NoResult, err |-> "failed to push tag: " \o OperationError]
    /\ pc' = "returned"
    /\ UNCHANGED <<info, lockVars, config, cli, opts, calls, output, pref, fault, snapshot,
                   concurrent, coreVars, tagVars>>

\* The run is between its read of the tags and its git tag.
BeforeGitTag ==
    \/ pc = "CreateTag"
    \/ pc = "createTagWithLock"
          /\ caller[CommandRun].at \in {"idle", "Lock", "OpenFile", "Stat", "Remove", "holding"}

\* Another process creates a tag while the run is between its read of the
\* tags and its git tag.
OtherProcessCreatesTag ==
    /\ BeforeGitTag
    /\ Len(concurrent) < MaxConcurrent
    /\ \E t \in ConcurrentNames :
          /\ \A i \in DOMAIN tagRefs : tagRefs[i] # t
          /\ tagRefs' = Append(tagRefs, t)
          /\ concurrent' = Append(concurrent, t)
    /\ UNCHANGED <<info, pc, lockVars, config, cli, opts, result, calls, output, pref, fault,
                   snapshot, latest, args, next, coreVars>>

\* The run is inside acquireGitLock.
Acquiring ==
    /\ pc \in {"createTagWithLock", "pushTagWithLock"}
    /\ caller[CommandRun].at \in {"idle", "Lock", "OpenFile", "Stat", "Remove"}

\* Another process takes the git lock while the run is inside
\* acquireGitLock.
OtherProcessAcquires ==
    /\ Acquiring
    /\ ~lockFile.exists
    /\ lockFile' = OtherLockFile
    /\ UNCHANGED <<info, pc, repoMutex, caller, invocation, coreVars, tagVars, runVars>>

\* Another process releases the git lock it holds.
OtherProcessReleases ==
    /\ Acquiring
    /\ lockFile.exists /\ lockFile.by = ""
    /\ lockFile' = NoFile
    /\ UNCHANGED <<info, pc, repoMutex, caller, invocation, coreVars, tagVars, runVars>>

NextRun ==
    \/ CallBump
    \/ RunCommand
    \/ CallCreateTag
    \/ CallAcquireGitLock(CommandRun)
    \/ LockRepoMutex(CommandRun)
    \/ OpenFile(CommandRun)
    \/ StatLockFile(CommandRun)
    \/ RemoveStaleLock(CommandRun)
    \/ RunGitTag
    \/ Release(CommandRun)
    \/ ReleaseUnlock(CommandRun)
    \/ ReturnFromCreateTagToBumpVersion
    \/ CallPushTag
    \/ RunGitPush
    \/ ReturnFromPushTagToBumpVersion
    \/ CallUpdateVersionFile
    \/ TagAndPush
    \/ TagAndPushGitPush
    \/ OtherProcessCreatesTag
    \/ OtherProcessAcquires
    \/ OtherProcessReleases
    \/ LockFileAges

SpecRun == InitRun /\ [][NextRun]_vars

(***************************************************************************)
(* Properties of the git lock (SpecLock)                                   *)
(***************************************************************************)

\* The caller is between a successful acquireGitLock and its Release.
Holding(c) == caller[c].at \in {"holding", "Release"}

\* acquireGitLock has returned to the caller.
Returned(c) == caller[c].at \in {"failed", "holding", "Release", "Unlock", "done"}

\* C21: for one repository, at no time do two callers (goroutines of one
\* process or separate processes) both hold the lock, that is, both are
\* between a successful acquireGitLock and their Release.
C21_MutualExclusion ==
    \A c, d \in Callers : (c # d) => ~(Holding(c) /\ Holding(d))

\* C22: when the holder's git command fails or the holder's process
\* terminates while it holds the lock, the lock file is removed: a lock file
\* written by a caller exists only while that caller holds the lock.
C22_ReleasedOnTermination ==
    \A c \in Callers : (lockFile.exists /\ lockFile.by = c) => Holding(c)

\* C23 as stated, for a caller with a valid repository path whose OpenFile
\* never failed for a reason other than the existence of the file:
\* acquireGitLock returns an error exactly when the lock file existed and
\* was not stale at every one of its attempts (then no lock is held and no
\* git command is run), and otherwise returns holding the lock.
C23_TimeoutOrLock ==
    \A c \in Callers :
        (Returned(c) /\ caller[c].err \notin {"invalid repository for git lock",
                                              "failed to resolve repository path",
                                              "failed to create lock file"}) =>
            /\ caller[c].at = "failed" <=>
                  (caller[c].i = MaxAttempts /\ caller[c].seen = {"fresh"})
            /\ caller[c].at = "failed" =>
                  (caller[c].lock = "nil" /\ caller[c].cmd = "none")

\* The outcomes of acquireGitLock: it makes at most MaxAttempts attempts.
\* A caller that found the lock file present and not stale at every attempt
\* gets an error.  Every error (an invalid repository path, a lock file
\* that cannot be created, or a lock file present at every attempt, stale
\* or not) comes with a nil lock, an unlocked mutex and no git command run;
\* the lock is returned only to a caller that created the lock file at one
\* of its attempts.  (A caller whose process ended while it was in the loop
\* is dead; one that called Release on the nil lock it got has panicked.)
BoundedAcquire ==
    \A c \in Callers :
        /\ caller[c].i <= MaxAttempts
        /\ (caller[c].i = MaxAttempts /\ caller[c].seen = {"fresh"}) =>
              /\ caller[c].at \in {"OpenFile", "failed", "panic", "dead"}
              /\ caller[c].lock = "nil"
        /\ caller[c].at \in {"failed", "panic"} =>
              /\ caller[c].lock = "nil" /\ ~caller[c].mutex /\ caller[c].cmd = "none"
              /\ \/ caller[c].err = "invalid repository for git lock" /\ caller[c].seen = {}
                 \/ caller[c].err = "failed to resolve repository path" /\ caller[c].seen = {}
                 \/ caller[c].err = "failed to create lock file" /\ "error" \in caller[c].seen
                 \/ /\ caller[c].err = "failed to acquire git lock after attempts"
                    /\ caller[c].i = MaxAttempts
                    /\ "absent" \notin caller[c].seen
        /\ caller[c].at \in {"holding", "Release", "Unlock"} =>
              ("absent" \in caller[c].seen /\ caller[c].i < MaxAttempts)

\* The caller is inside acquireGitLock: it waits for the mutex of its
\* process or is in the loop of attempts.
InAcquire(c) == caller[c].at \in {"Lock", "OpenFile", "Stat", "Remove"}

\* C23, amended: acquireGitLock never waits forever: every caller inside
\* acquireGitLock, whether it waits for the mutex of its process or is in
\* the loop of attempts, leaves it (it returns, or its process ends); and
\* the outcomes are those of BoundedAcquire.
C23_NeverWaitsForever ==
    /\ []BoundedAcquire
    /\ \A c \in Callers : InAcquire(c) ~> ~InAcquire(c)

\* Reached: a caller gave up after MaxAttempts attempts that all found a
\* fresh lock file, and the other goroutine of its process, which called
\* acquireGitLock too, got the mutex and now holds the lock.
C23_Witness ==
    \E c, d \in Callers :
        /\ caller[c].at = "failed" /\ caller[c].i = MaxAttempts
        /\ caller[c].seen = {"fresh"}
        /\ caller[c].err = "failed to acquire git lock after attempts"
        /\ c # d /\ ProcessOf(c) = ProcessOf(d)
        /\ Holding(d) /\ caller[d].i > 0

\* A call of acquireGitLock that returns an error returns a nil lock and
\* leaves the mutex of the repository unlocked by this caller; a successful
\* acquire is matched by exactly one Unlock, made by the first Release (a
\* further Release changes nothing); a Release of a GitLock that was never
\* acquired unlocks nothing; the mutex is never unlocked twice, and it is
\* locked only while a caller of the process is inside acquireGitLock or
\* holds the lock.
MutexBalanced ==
    /\ \A c \in Callers :
          /\ caller[c].at \in {"failed", "panic"} =>
                (caller[c].lock = "nil" /\ ~caller[c].mutex /\ caller[c].err # NoError)
          /\ caller[c].lock = "acquired" => (caller[c].mutex /\ caller[c].unlocks = 0)
          /\ caller[c].at = "done" =>
                (caller[c].lock = "unacquired" /\ ~caller[c].mutex /\ caller[c].unlocks = 1)
          /\ caller[c].at = "not acquired" =>
                /\ caller[c].lock = "unacquired" /\ ~caller[c].mutex
                /\ caller[c].unlocks = 0 /\ caller[c].err = NoError
                /\ caller[c].releases = 1
          /\ caller[c].unlocks <= 1
    /\ \A p \in Processes :
          /\ repoMutex[p] # "fatal"
          /\ repoMutex[p] = "locked" =>
                \E c \in Callers :
                    /\ ProcessOf(c) = p /\ caller[c].mutex
                    /\ caller[c].at \in {"OpenFile", "Stat", "Remove", "holding",
                                        "Release", "Unlock"}

\* C30 as stated, with the nil lock of a failed acquireGitLock counted
\* among the locks that were never acquired: every Release that is not the
\* first Release of an acquired lock is a no-op that returns nil, so no
\* caller panics in Release.
C30_EveryOtherReleaseIsNoOp ==
    /\ MutexBalanced
    /\ \A c \in Callers : caller[c].at # "panic"

\* C30, amended: MutexBalanced; a second Release and a Release of a GitLock
\* whose acquired field is false are no-ops that return nil; a Release
\* through the nil lock that a failed acquireGitLock returned panics, after
\* the failed call left the mutex unlocked, and ends the process: no
\* goroutine of that process acquires afterwards.
C30_MutexBalanced ==
    /\ MutexBalanced
    /\ \A c \in Callers :
          caller[c].at = "panic" =>
              /\ caller[c].releases = 1
              /\ repoMutex[ProcessOf(c)] = "unlocked"
              /\ \A d \in Callers :
                     ProcessOf(d) = ProcessOf(c) => caller[d].at \in Finished \cup {"dead"}

\* Reached: in process A a caller released a GitLock it never acquired,
\* and the other acquired and released its lock twice; in process B
\* the caller gave up on a busy lock file, unlocked the mutex and called
\* Release on its nil lock.
C30_Witness ==
    /\ caller["a1"].at = "not acquired" /\ caller["a1"].releases = 1
    /\ caller["a2"].at = "done" /\ caller["a2"].releases = MaxReleases
    /\ caller["b1"].at = "panic" /\ caller["b1"].unlocks = 1

(***************************************************************************)
(* Concurrent runs of the bump command on one repository: bumpVersion      *)
(* reads the tags and computes the next tag, then CreateTag takes the git  *)
(* lock around the git command only                                        *)
(***************************************************************************)

\* A run of bumpVersion before it reads the tags.
\*   at        position in the code
\*   bumpType  its command
\*   snapshot  the tags it read
\*   tag       the next tag it computed
\*   attempted its git tag command has run
\*   err       the error bumpVersion returned
StartOf(kind) ==
    [at |-> "start", bumpType |-> kind, snapshot |-> <<>>, tag |-> "",
     attempted |-> FALSE, err |-> NoError]

\* bumpVersion, up to the call of CreateTag: findGitRoot, git.PlainOpen and
\* repo.Tags, one of which may fail before any tag is read, then
\* GetLatestTag and calculateNextVersion.  No lock is taken.
ReadTagsAndCalculate(p) ==
    /\ pc = "race"
    /\ invocation[p].at = "start"
    /\ \/ \E message \in {"failed to find git root", "failed to open git repo",
                           "failed to fetch tags"} :
             invocation' = [invocation EXCEPT ![p].at = "failed", ![p].err = message]
       \/ \E l \in {GetLatestTag(tagRefs)} :
             IF l.err # NoError
             THEN invocation' = [invocation EXCEPT ![p].at = "failed",
                                     ![p].snapshot = tagRefs,
                                     ![p].err = "failed to determine latest tag"]
             ELSE \E n \in {calculateNextVersion(l.tag, invocation[p].bumpType, "")} :
                     IF n.err # NoError
                     THEN invocation' = [invocation EXCEPT ![p].at = "failed",
                                             ![p].snapshot = tagRefs,
                                             ![p].err = "failed to determine next tag"]
                     ELSE invocation' = [invocation EXCEPT ![p].at = "CreateTag",
                                             ![p].snapshot = tagRefs,
                                             ![p].tag = n.tag]
    /\ UNCHANGED <<info, pc, lockFile, repoMutex, caller, coreVars, tagVars, runVars>>

\* CreateTag up to the call of createTagWithLock: findGitRepoRoot finds the
\* repository root or fails.
CreateTag(p) ==
    /\ pc = "race"
    /\ invocation[p].at = "CreateTag"
    /\ \/ invocation' = [invocation EXCEPT ![p].at = "createTagWithLock"]
       \/ invocation' = [invocation EXCEPT ![p].at = "failed",
                             ![p].err = "failed to create tag: failed to find git repository"]
    /\ UNCHANGED <<info, pc, lockFile, repoMutex, caller, coreVars, tagVars, runVars>>

\* createTag under the lock: the git tag command exits with an error,
\* always when the repository has the tag already and possibly otherwise
\* (no commit, no committer identity, an invalid name, .git not writable),
\* and adds no tag; or it creates the tag.  The lock file is still there;
\* the deferred Release follows.
createTag(p) ==
    /\ pc = "race"
    /\ invocation[p].at = "createTagWithLock"
    /\ caller[p].at = "holding"
    /\ \/ /\ caller' = [caller EXCEPT ![p].at = "Release", ![p].cmd = "failed"]
          /\ UNCHANGED tagRefs
       \/ /\ ~CreateTagFails(tagRefs, invocation[p].tag, "none")
          /\ caller' = [caller EXCEPT ![p].at = "Release", ![p].cmd = "ok"]
          /\ tagRefs' = Append(tagRefs, invocation[p].tag)
    /\ invocation' = [invocation EXCEPT ![p].attempted = TRUE]
    /\ UNCHANGED <<info, pc, lockFile, repoMutex, latest, args, next, coreVars, runVars>>

\* createTagWithLock returns to CreateTag and CreateTag to bumpVersion:
\* with the error of acquireGitLock, or, after the deferred Release, with
\* the outcome of the git tag command.  bumpVersion returns on an error.
ReturnFromCreateTag(p) ==
    /\ pc = "race"
    /\ invocation[p].at = "createTagWithLock"
    /\ \/ /\ caller[p].at = "failed"
          /\ invocation' = [invocation EXCEPT ![p].at = "failed",
                ![p].err = "failed to create tag: failed to acquire git lock: "
                               \o caller[p].err]
       \/ /\ caller[p].at = "done" /\ caller[p].cmd = "failed"
          /\ invocation' = [invocation EXCEPT ![p].at = "failed",
                ![p].err = "failed to create tag: failed to create tag: " \o OperationError]
       \/ /\ caller[p].at = "done" /\ caller[p].cmd = "ok"
          /\ invocation' = [invocation EXCEPT ![p].at = "created"]
    /\ UNCHANGED <<info, pc, lockFile, repoMutex, caller, coreVars, tagVars, runVars>>

\* The repositories of the concurrent runs: without tags, with a latest
\* semantic-version tag, with a tag that is no semantic version.
RaceRepositories == {<<>>, <<"v1.2.3">>, <<"release", "v0.1.0">>}

\* The commands of the concurrent runs.
RaceKinds == {"patch", "minor", "invalid"}

InitRace ==
    /\ pc = "race"
    /\ info = NoInfo
    /\ tagRefs \in RaceRepositories
    /\ invocation \in [Invocations -> {StartOf(k) : k \in RaceKinds}]
    /\ lockFile = NoFile
    /\ repoMutex = [p \in Invocations |-> "unlocked"]
    /\ caller = [p \in Invocations |-> IdleCaller]
    /\ latest = NoTag /\ args = NoArgs /\ next = NoNext
    /\ CoreIdle /\ RunIdle

NextRace ==
    \/ \E p \in Invocations : ReadTagsAndCalculate(p)
    \/ \E p \in Invocations : CreateTag(p)
    \/ \E p \in Invocations : CallAcquireGitLock(p)
    \/ \E p \in Invocations : LockRepoMutex(p)
    \/ \E p \in Invocations : OpenFile(p)
    \/ \E p \in Invocations : StatLockFile(p)
    \/ \E p \in Invocations : RemoveStaleLock(p)
    \/ \E p \in Invocations : createTag(p)
    \/ \E p \in Invocations : Release(p)
    \/ \E p \in Invocations : ReleaseUnlock(p)
    \/ \E p \in Invocations : ReturnFromCreateTag(p)
    \/ LockFileAges

SpecRace == InitRace /\ [][NextRace]_vars

\* C24: two concurrent runs of the bump command on one repository never
\* both compute the same next tag from the same snapshot of the tags and
\* both attempt to create it.
C24_NoDuplicateCreate ==
    \A p, q \in Invocations :
        (p # q) =>
            ~ /\ invocation[p].attempted /\ invocation[q].attempted
              /\ invocation[p].snapshot = invocation[q].snapshot
              /\ invocation[p].tag = invocation[q].tag

(***************************************************************************)
(* NewGitInfo                                                              *)
(***************************************************************************)

\* plumbing.ReferenceName.String of the tag with this short name.
ReferenceName(name) == "refs/tags/" \o name

\* getVersions: the reference names of the tags whose short name starts
\* with "v", in the order of the iteration.
RECURSIVE getVersions(_)
getVersions(refs) ==
    IF refs = <<>> THEN <<>>
    ELSE LET name == refs[Len(refs)]
             rest == getVersions(SubSeq(refs, 1, Len(refs) - 1))
         IN  IF HasPrefix(name, "v") THEN Append(rest, ReferenceName(name)) ELSE rest

\* NewGitInfo(path) on a repository with these tags = [versions, err];
\* failing names the step that fails.
NewGitInfo(refs, failing) ==
    IF failing = "PlainOpen" THEN [versions |-> <<>>, err |-> RepositoryNotExists]
    ELSE IF failing = "Tags" THEN [versions |-> <<>>, err |-> OperationError]
    ELSE [versions |-> getVersions(refs), err |-> NoError]

InitGitInfo ==
    /\ pc = "info"
    /\ info = NoInfo
    /\ tagRefs \in UNION {DistinctSeqs(LatestNames, k) : k \in 0..MaxTagRefs}
    /\ fault \in {"none", "PlainOpen", "Tags"}
    /\ latest = NoTag /\ args = NoArgs /\ next = NoNext
    /\ config = NoConfig /\ cli = NoFlags /\ opts = NoOptions /\ result = NoOutcome
    /\ calls = <<>> /\ output = <<>> /\ pref = NoPreference /\ snapshot = <<>> /\ concurrent = <<>>
    /\ CoreIdle /\ LockIdle

CallNewGitInfo ==
    /\ pc = "info"
    /\ info' = NewGitInfo(tagRefs, fault)
    /\ pc' = "NewGitInfo"
    /\ UNCHANGED <<lockVars, coreVars, tagVars, runVars>>

NextGitInfo == CallNewGitInfo

SpecGitInfo == InitGitInfo /\ [][NextGitInfo]_vars

\* The short name of a reference name.
Short(ref) ==
    IF HasPrefix(ref, "refs/tags/") THEN SubSeq(ref, Len("refs/tags/") + 1, Len(ref))
    ELSE ref

\* C25: NewGitInfo returns all and only the tags of the repository that
\* parse as semantic versions, as tag strings (with or without refs/tags/
\* in front) in descending order under compareVersions.
C25_SemverTagsDescending ==
    (pc = "NewGitInfo" /\ info.err = NoError) =>
        LET sorted == sortVersions(getTagVersions(tagRefs))
        IN  /\ Len(info.versions) = Len(sorted)
            /\ \A i \in DOMAIN sorted : Short(info.versions[i]) = sorted[i].Tag

(***************************************************************************)
(* Properties of the order of the steps (SpecRun)                          *)
(***************************************************************************)

\* The steps of a run that is not a dry run, for the tag it creates.
StepsOf(t) ==
    <<<<"CreateTag", t>>>>
        \o (IF opts.Push THEN <<<<"PushTags">>>> ELSE <<>>)
        \o (IF opts.UpdateFile # ""
            THEN <<<<"UpdateVersionFile", opts.UpdateFile, t>>>> ELSE <<>>)

IsPrefix(s, t) == Len(s) <= Len(t) /\ s = SubSeq(t, 1, Len(s))

\* The call fails in this run: its operation is the failing one, or it
\* creates a tag the repository had already.
StepFails(call) ==
    \/ fault = call[1]
    \/ call[1] = "CreateTag" /\ \E i \in DOMAIN BeforeCreate : BeforeCreate[i] = call[2]

\* C26: a run that is not a dry run calls CreateTag, then PushTags (only
\* when Push is requested), then the version-file update (only when
\* UpdateFile is non-empty), and stops at the first step that fails, with
\* an error: after a CreateTag failure nothing else is called and no tag is
\* added, after a PushTags failure no file is updated, and the tag created
\* before a later failure stays in the repository.
C26_StepsInOrder ==
    (Ran /\ ~opts.DryRun) =>
        /\ calls = <<>> => (result.err # NoError /\ tagRefs = BeforeCreate)
        /\ calls # <<>> =>
              LET t    == calls[1][2]
                  last == calls[Len(calls)]
              IN  /\ IsPrefix(calls, StepsOf(t))
                  /\ \A i \in 1..(Len(calls) - 1) : ~StepFails(calls[i])
                  /\ result.err # NoError => StepFails(last)
                  /\ result.err = NoError => (calls = StepsOf(t) /\ ~StepFails(last))
                  /\ tagRefs = IF StepFails(calls[1]) THEN BeforeCreate
                               ELSE Append(BeforeCreate, t)

\* Reached: a Bump with Push and UpdateFile whose PushTags failed: the tag
\* was created and stays, and the file update was not called.
C26_Witness ==
    /\ pc = "Bump"
    /\ ~opts.DryRun /\ opts.Push /\ opts.UpdateFile # ""
    /\ fault = "PushTags"
    /\ result.err # NoError
    /\ calls = <<<<"CreateTag", "v1.3.1">>, <<"PushTags">>>>
    /\ tagRefs = Append(snapshot, "v1.3.1")

(***************************************************************************)
(* Sequences of bumps on one repository                                    *)
(***************************************************************************)

\* The bumps of one sequence.
MaxBumps == 3

\* Tag names of the starting repositories: semantic versions (a release, a
\* pre-release, one written with a leading zero, one whose major group is
\* the largest int) and a name that is not a semantic version.
BumpNames ==
    {"v1.2.3", "v1.3.0-rc.1", "v01.3.0", "v9223372036854775807.0.0", "release"}

\* The options of the bumps: every kind, without and with a suffix.
SequenceOptions ==
    [BumpType : {"major", "minor", "patch"}, Suffix : {"", "rc.1"},
     UpdateFile : {""}, Push : {FALSE}, DryRun : {FALSE}]

InitBumps ==
    /\ pc = "bumps"
    /\ info = NoInfo
    /\ tagRefs \in UNION {DistinctSeqs(BumpNames, k) : k \in 0..MaxTagRefs}
    /\ latest = NoTag /\ args = NoArgs /\ next = NoNext
    /\ CoreIdle /\ RunIdle /\ LockIdle

\* One more Bump on the repository the previous ones left; calls collects
\* the calls of all of them.
CallBumpAgain ==
    /\ pc \in {"bumps", "bumped"}
    /\ Len(calls) < MaxBumps
    /\ \E o \in SequenceOptions :
         \E r \in {Bump(tagRefs, o, "none")} :
             /\ opts' = o
             /\ snapshot' = tagRefs
             /\ result' = [res |-> r.res, err |-> r.err]
             /\ calls' = calls \o r.calls
             /\ output' = r.output
             /\ tagRefs' = r.refs
    /\ pc' = "bumped"
    /\ UNCHANGED <<info, lockVars, config, cli, pref, fault, concurrent, latest, args, next,
                   coreVars>>

NextBumps == CallBumpAgain

SpecBumps == InitBumps /\ [][NextBumps]_vars

\* C27: every Bump of a sequence of bumps succeeds, and the tag it creates
\* is strictly greater under compareVersions than every semantic-version
\* tag the repository had before, was not present before, and is the tag
\* GetLatestTag returns afterwards.
C27_CreatedTagIsNewLatest ==
    pc = "bumped" =>
        /\ result.err = NoError
        /\ \E v \in {ParseTagVersion(result.res.NextTag)} :
              /\ v.ok
              /\ \A i \in DOMAIN snapshot :
                    \E w \in {ParseTagVersion(snapshot[i])} :
                        /\ snapshot[i] # result.res.NextTag
                        /\ w.ok => /\ compareVersions(v.version, w.version)
                                   /\ ~compareVersions(w.version, v.version)
        /\ tagRefs = Append(snapshot, result.res.NextTag)
        /\ GetLatestTag(tagRefs) = [tag |-> result.res.NextTag, err |-> NoError]

\* The same statement on the repositories none of whose semantic-version
\* tags has a group equal to the largest int.
C27_BelowLargestInt ==
    (/\ pc = "bumped"
     /\ \A i \in DOMAIN snapshot :
           \E w \in {ParseTagVersion(snapshot[i])} :
               w.ok => MaxInt \notin {w.version.Major, w.version.Minor, w.version.Patch}) =>
        /\ result.err = NoError
        /\ \E v \in {ParseTagVersion(result.res.NextTag)} :
              /\ v.ok
              /\ \A i \in DOMAIN snapshot :
                    \E w \in {ParseTagVersion(snapshot[i])} :
                        /\ snapshot[i] # result.res.NextTag
                        /\ w.ok => /\ compareVersions(v.version, w.version)
                                   /\ ~compareVersions(w.version, v.version)
        /\ tagRefs = Append(snapshot, result.res.NextTag)
        /\ GetLatestTag(tagRefs) = [tag |-> result.res.NextTag, err |-> NoError]

\* Reached: three bumps on a repository with a pre-release tag, the last
\* one a pre-release of the next minor version.
C27_Witness ==
    /\ pc = "bumped"
    /\ Len(calls) = MaxBumps
    /\ \E i \in DOMAIN snapshot : snapshot[i] = "v1.3.0-rc.1"
    /\ opts.BumpType = "minor" /\ opts.Suffix = "rc.1"
    /\ result.err = NoError
    /\ ParseTagVersion(result.res.NextTag).version.Suffix = "-rc.1"
    /\ Len(tagRefs) = Len(snapshot) + 1

(***************************************************************************)
(* Equality under the comparator                                           *)
(***************************************************************************)

\* Tags of the equality pool: cores and numeric identifiers written with and
\* without a leading zero, groups and identifiers beyond the int range,
\* alphanumeric identifiers.
EqualTags ==
    {"v0.0.0", "v1.0.0", "v01.0.0", "v1.0.1", "v9223372036854775808.0.0",
     "v0.0.18446744073709551616", "v1.0.0-2", "v1.0.0-02", "v1.0.0-a",
     "v1.0.0-a.2", "v1.0.0-9223372036854775808", "v1.0.0-10000000000000000000"}

InitEqual ==
    /\ pc = "compare"
    /\ info = NoInfo
    /\ versions \in [1..2 -> VersionsOf(EqualTags)]
    /\ greater = <<>>
    /\ tag = ""
    /\ parsed = NotParsed
    /\ TagIdle /\ RunIdle /\ LockIdle

SpecEqual == InitEqual /\ [][NextCompare]_vars

\* The digit groups of two tags write the same three numbers.
SameCore(t1, t2) ==
    LET g1 == GroupsOf(t1)
        g2 == GroupsOf(t2)
    IN  /\ Canonical(g1.major) = Canonical(g2.major)
        /\ Canonical(g1.minor) = Canonical(g2.minor)
        /\ Canonical(g1.patch) = Canonical(g2.patch)

\* Two Suffix values have the same list of identifiers, a numeric
\* identifier being the number it writes.
SameIdentifiers(s1, s2) ==
    IF s1 = "" \/ s2 = "" THEN s1 = s2
    ELSE LET ids1 == Identifiers(s1)
             ids2 == Identifiers(s2)
         IN  /\ Len(ids1) = Len(ids2)
             /\ \A k \in DOMAIN ids1 :
                   IF DigitsOnly(ids1[k]) /\ DigitsOnly(ids2[k])
                   THEN Canonical(ids1[k]) = Canonical(ids2[k])
                   ELSE ids1[k] = ids2[k]

\* C28: two tags that ParseTagVersion accepts compare equal (compareVersions
\* is false in both directions) only if their major, minor and patch
\* numbers and their pre-release identifier lists are identical.
C28_EqualOnlyIfIdentical ==
    (pc = "compared" /\ ~greater[1][2] /\ ~greater[2][1]) =>
        /\ SameCore(versions[1].Tag, versions[2].Tag)
        /\ SameIdentifiers(versions[1].Suffix, versions[2].Suffix)

(***************************************************************************)
(* The next tag of a snapshot of the tags                                  *)
(***************************************************************************)

\* The start of Bump: GetLatestTag on the tags, then calculateNextVersion on
\* the latest tag = [tag, err].
NextTagOf(refs, bumpType, suffix) ==
    LET FromLatest(l) ==
          IF l.err # NoError
          THEN [tag |-> "", err |-> "failed to determine latest tag: " \o l.err]
          ELSE LET Calculated(n) ==
                     IF n.err # NoError
                     THEN [tag |-> "", err |-> "failed to determine next tag: " \o n.err]
                     ELSE [tag |-> n.tag, err |-> NoError]
               IN  Calculated(calculateNextVersion(l.tag, bumpType, suffix))
    IN  FromLatest(GetLatestTag(refs))

InitSnapshot ==
    /\ pc = "snapshot"
    /\ info = NoInfo
    /\ tagRefs \in UNION {DistinctSeqs(LatestNames, k) : k \in 0..MaxTagRefs}
    /\ latest = NoTag
    /\ args \in {[bumpType |-> k, suffix |-> s, currentTag |-> ""] :
                    k \in {"major", "minor", "patch"}, s \in {"", "rc.1"}}
    /\ next = NoNext
    /\ CoreIdle /\ RunIdle /\ LockIdle

CallNextTagOf ==
    /\ pc = "snapshot"
    /\ \E l \in {GetLatestTag(tagRefs)}, n \in {NextTagOf(tagRefs, args.bumpType, args.suffix)} :
          /\ latest' = l
          /\ args' = [args EXCEPT !.currentTag = l.tag]
          /\ next' = [NoNext EXCEPT !.tag = n.tag, !.err = n.err]
    /\ pc' = "calculated"
    /\ UNCHANGED <<info, lockVars, tagRefs, coreVars, runVars>>

NextSnapshot == CallNextTagOf

SpecSnapshot == InitSnapshot /\ [][NextSnapshot]_vars

\* The orders in which the tags of the repository can be iterated.
IterationOrders == DistinctSeqs(Range(tagRefs), Len(tagRefs))

\* C29: for a fixed kind and suffix, GetLatestTag followed by
\* calculateNextVersion yields the same next tag on every collection that
\* holds the same tag strings in another iteration order.
C29_NextTagIgnoresOrder ==
    pc = "calculated" =>
        \A refs \in IterationOrders :
            \E n \in {NextTagOf(refs, args.bumpType, args.suffix)} :
                n.tag = next.tag /\ n.err = next.err

\* Reached: a repository with two tags of equal precedence, where the
\* latest tag depends on the iteration order and the next tag does not.
C29_Witness ==
    /\ pc = "calculated"
    /\ Len(tagRefs) = 3
    /\ \E refs \in IterationOrders : GetLatestTag(refs).tag # latest.tag
    /\ latest.tag = "v01.0.0"
    /\ args.bumpType = "minor" /\ args.suffix = "rc.1"
    /\ next = [NoNext EXCEPT !.tag = "v1.1.0-rc.1"]

====
